---- MODULE Spec2Model ----
(***************************************************************************)
(* go-mcp-sdk: the tool registry, the reflective dispatcher and the        *)
(* JSON-RPC router of the MCP server (src/server.go, src/pkg/mcp,          *)
(* src/pkg/protocol).                                                      *)
(*                                                                         *)
(* JSON texts are modelled by their parsed value: [t |-> "null"],          *)
(* [t |-> "str", v |-> s], [t |-> "num", v |-> n], [t |-> "bool", v |-> b],*)
(* [t |-> "arr", v |-> seq], [t |-> "obj", v |-> members]; bytes that are  *)
(* no JSON text are [t |-> "malformed"], and an empty byte slice (a nil    *)
(* json.RawMessage) is [t |-> "absent"].                                   *)
(***************************************************************************)
EXTENDS Integers, Sequences, FiniteSets, TLC

VARIABLES
    tools,      \* Server.tools: name -> internalRegisteredTool
    sessions,   \* Server.sessions: session id -> SessionState
    clock,      \* the last reading of time.Now().UnixNano()
    issued,     \* history: the session id and capabilities of each successful initialize
    call,       \* the operation that has just run (its input and what it produced), or Idle
    goroutines, \* the workers serving requests or registering concurrently: where each is
    locks       \* Server.toolLock and Server.sessionLock: the worker holding each for
                \* writing, or Unlocked, and the workers holding toolLock for reading

vars == <<tools, sessions, clock, issued, call, goroutines, locks>>

\* ---------------------------------------------------------------- bounds

\* The longest batch handed to RegisterTools.
MaxBatch == 2
\* The number of initialize requests recorded in the history.
MaxInit == 2
\* The largest clock reading.
MaxClock == 2
\* The most fields of a parameter struct handed to the schema synthesizer.
MaxFields == 3
\* The number of workers that run concurrently.
MaxGoroutines == 2

\* ------------------------------------------------------------ JSON values

EmptyObj == [k \in {} |-> TRUE]
Absent == [t |-> "absent"]
Malformed == [t |-> "malformed"]
JNull == [t |-> "null"]
JStr(s) == [t |-> "str", v |-> s]
JNum(n) == [t |-> "num", v |-> n]
JBool(b) == [t |-> "bool", v |-> b]
JArr(s) == [t |-> "arr", v |-> s]
JObj(m) == [t |-> "obj", v |-> m]

Digits == <<"0", "1", "2", "3", "4", "5", "6", "7", "8", "9">>

RECURSIVE FormatInt(_)
\* strconv / fmt's %d and %v of a whole number: its decimal digits.
FormatInt(n) ==
    IF n < 0 THEN "-" \o FormatInt(0 - n)
    ELSE IF n < 10 THEN Digits[n + 1]
    ELSE FormatInt(n \div 10) \o Digits[(n % 10) + 1]

\* ------------------------------------------------------- Go types (reflect)

StringType == [k |-> "string"]
Float64Type == [k |-> "float64"]
IntType == [k |-> "int"]
ErrorType == [k |-> "interface", name |-> "error"]
ContextType == [k |-> "interface", name |-> "context.Context"]
RawMessageType == [k |-> "raw"]
RequestIDType == [k |-> "RequestID"]
ArgumentsType == [k |-> "map"]
PtrTo(ty) == [k |-> "ptr", elem |-> ty]
StructType(name, fields) == [k |-> "struct", name |-> name, fields |-> fields]
BoolType == [k |-> "bool"]
AnyType == [k |-> "any"]
RawMapType == [k |-> "rawmap"]
SliceOf(ty) == [k |-> "slice", elem |-> ty]
\* A struct field: its Go name, its `json` key, its `description` tag, `omitempty`.
Field(name, json, ty) ==
    [name |-> name, json |-> json, desc |-> "", omitempty |-> FALSE, ty |-> ty]
FieldD(name, json, desc, ty) ==
    [name |-> name, json |-> json, desc |-> desc, omitempty |-> FALSE, ty |-> ty]
FieldO(name, json, ty) ==
    [name |-> name, json |-> json, desc |-> "", omitempty |-> TRUE, ty |-> ty]

\* reflect.Type.Kind
Kind(ty) ==
    CASE ty.k = "ptr" -> "Ptr"
      [] ty.k = "struct" -> "Struct"
      [] ty.k = "interface" -> "Interface"
      [] ty.k \in {"map", "rawmap"} -> "Map"
      [] ty.k \in {"raw", "slice"} -> "Slice"
      [] ty.k = "any" -> "Interface"
      [] ty.k = "RequestID" -> "Struct"
      [] OTHER -> ty.k

\* reflect.Type.Implements(context.Context)
ImplementsContext(ty) == ty.k = "interface" /\ ty.name = "context.Context"

FieldNames(ty) == {ty.fields[i].name : i \in DOMAIN ty.fields}
FieldOf(ty, n) == ty.fields[CHOOSE i \in DOMAIN ty.fields : ty.fields[i].name = n]

\* Go values: a nil pointer, a nil map, a nil interface.
NilPtr == [isNil |-> TRUE]
PtrValue(v) == [isNil |-> FALSE, elem |-> v]
NilID == [t |-> "nil"]
\* interface{} values: nil, or a dynamic value of the Go type encoding/json decodes to.
NilValue == [go |-> "nil"]
GoString(s) == [go |-> "string", v |-> s]
GoFloat(n) == [go |-> "float64", v |-> n]
GoBool(b) == [go |-> "bool", v |-> b]
GoMap(m) == [go |-> "map", v |-> m]
GoSlice(s) == [go |-> "slice", v |-> s]

RECURSIVE Zero(_)
\* The zero value of a type (what `var x T` and reflect.New(T).Elem() hold).
Zero(ty) ==
    CASE ty.k = "string" -> ""
      [] ty.k = "float64" -> 0
      [] ty.k = "int" -> 0
      [] ty.k = "ptr" -> NilPtr
      [] ty.k = "bool" -> FALSE
      [] ty.k = "map" -> NilValue
      [] ty.k = "any" -> NilValue
      [] ty.k = "rawmap" -> EmptyObj
      [] ty.k = "slice" -> <<>>
      [] ty.k = "raw" -> Absent
      [] ty.k = "RequestID" -> NilID
      [] ty.k = "struct" -> [n \in FieldNames(ty) |-> Zero(FieldOf(ty, n).ty)]
      [] OTHER -> NilPtr

\* ------------------------------------------------- encoding/json: decoding

RECURSIVE ToInterface(_)
\* What a JSON value decodes to in an interface{}.
ToInterface(j) ==
    CASE j.t = "null" -> NilValue
      [] j.t = "str" -> GoString(j.v)
      [] j.t = "num" -> GoFloat(j.v)
      [] j.t = "bool" -> GoBool(j.v)
      [] j.t = "arr" -> GoSlice([i \in DOMAIN j.v |-> ToInterface(j.v[i])])
      [] j.t = "obj" -> GoMap([key \in DOMAIN j.v |-> ToInterface(j.v[key])])

RECURSIVE Decode(_, _, _)
RECURSIVE UnmarshalRequestID(_)

\* RequestID.UnmarshalJSON as it would be if it took a value of any form for a
\* null id.
UnmarshalRequestIDOfAnyForm(data) == [err |-> FALSE, val |-> NilID]

\* RequestID.UnmarshalJSON: a string first, then a number, then null.
UnmarshalRequestID(data) ==
    LET str == Decode(data, StringType, "")
        num == Decode(data, Float64Type, 0)
    IN  IF ~str.err THEN [err |-> FALSE, val |-> [t |-> "str", v |-> str.val]]
        ELSE IF ~num.err THEN [err |-> FALSE, val |-> [t |-> "num", v |-> num.val]]
        ELSE IF data.t = "null" THEN [err |-> FALSE, val |-> NilID]
        ELSE [err |-> TRUE, val |-> NilID]

\* json.Unmarshal of the JSON value j into a Go value of type ty that holds cur.
\* A JSON null leaves a string, number or struct as it is and nils a pointer or
\* map; a json.Unmarshaler (RequestID, RawMessage) is handed the text, null too.
Decode(j, ty, cur) ==
    CASE ty.k = "raw" -> [err |-> FALSE, val |-> j]
      [] ty.k = "RequestID" ->
            LET r == UnmarshalRequestID(j)
            IN  [err |-> r.err, val |-> IF r.err THEN cur ELSE r.val]
      [] ty.k = "any" -> [err |-> FALSE, val |-> ToInterface(j)]
      [] j.t = "null" ->
            [err |-> FALSE,
             val |-> IF ty.k \in {"ptr", "map", "rawmap", "slice"} THEN Zero(ty) ELSE cur]
      [] ty.k = "string" ->
            IF j.t = "str" THEN [err |-> FALSE, val |-> j.v] ELSE [err |-> TRUE, val |-> cur]
      [] ty.k \in {"float64", "int"} ->
            IF j.t = "num" THEN [err |-> FALSE, val |-> j.v] ELSE [err |-> TRUE, val |-> cur]
      [] ty.k = "bool" ->
            IF j.t = "bool" THEN [err |-> FALSE, val |-> j.v] ELSE [err |-> TRUE, val |-> cur]
      [] ty.k = "ptr" ->
            LET d == Decode(j, ty.elem, Zero(ty.elem))
            IN  [err |-> d.err, val |-> PtrValue(d.val)]
      [] ty.k = "map" ->
            IF j.t = "obj" THEN [err |-> FALSE, val |-> ToInterface(j)]
            ELSE [err |-> TRUE, val |-> cur]
      [] ty.k = "rawmap" ->
            IF j.t = "obj" THEN [err |-> FALSE, val |-> j.v]
            ELSE [err |-> TRUE, val |-> cur]
      [] ty.k = "struct" ->
            IF j.t # "obj" THEN [err |-> TRUE, val |-> cur]
            ELSE LET sub(n) == Decode(j.v[FieldOf(ty, n).json], FieldOf(ty, n).ty, cur[n])
                     has(n) == FieldOf(ty, n).json \in DOMAIN j.v
                 IN  [err |-> \E n \in FieldNames(ty) : has(n) /\ sub(n).err,
                      val |-> [n \in FieldNames(ty) |->
                                  IF has(n) THEN sub(n).val ELSE cur[n]]]
      [] OTHER -> [err |-> TRUE, val |-> cur]

\* json.Unmarshal(data, &v) with v a fresh value of type ty: no text, or text that
\* is not JSON, is an error.
jsonUnmarshal(data, ty) ==
    IF data.t \in {"absent", "malformed"} THEN [err |-> TRUE, val |-> Zero(ty)]
    ELSE Decode(data, ty, Zero(ty))

\* ------------------------------------------------- encoding/json: encoding

RECURSIVE MarshalInterface(_)
\* json.Marshal of an interface{} value (and of a map[string]interface{}).
MarshalInterface(g) ==
    CASE g.go = "nil" -> JNull
      [] g.go = "string" -> JStr(g.v)
      [] g.go = "float64" -> JNum(g.v)
      [] g.go = "bool" -> JBool(g.v)
      [] g.go = "slice" -> JArr([i \in DOMAIN g.v |-> MarshalInterface(g.v[i])])
      [] g.go = "map" -> JObj([key \in DOMAIN g.v |-> MarshalInterface(g.v[key])])

\* RequestID.MarshalJSON
MarshalRequestID(id) ==
    IF id.t = "nil" THEN JNull
    ELSE IF id.t = "str" THEN JStr(id.v)
    ELSE JNum(id.v)

\* encoding/json's isEmptyValue: what `omitempty` leaves out.
IsEmptyValue(v, ty) ==
    CASE ty.k = "string" -> v = ""
      [] ty.k \in {"float64", "int"} -> v = 0
      [] ty.k = "bool" -> v = FALSE
      [] ty.k = "ptr" -> v.isNil
      [] ty.k \in {"map", "any"} -> v.go = "nil"
      [] ty.k = "slice" -> Len(v) = 0
      [] ty.k = "raw" -> v.t = "absent"
      [] OTHER -> FALSE

RECURSIVE Encode(_, _)
\* The JSON value json.Marshal writes for the Go value v of type ty; Malformed
\* when marshalling fails (a json.RawMessage that holds no valid JSON).
Encode(v, ty) ==
    CASE ty.k = "string" -> JStr(v)
      [] ty.k \in {"float64", "int"} -> JNum(v)
      [] ty.k = "bool" -> JBool(v)
      [] ty.k = "raw" -> IF v.t = "absent" THEN JNull ELSE v
      [] ty.k = "RequestID" -> MarshalRequestID(v)
      [] ty.k \in {"map", "any"} -> MarshalInterface(v)
      [] ty.k = "ptr" -> IF v.isNil THEN JNull ELSE Encode(v.elem, ty.elem)
      [] ty.k = "slice" ->
            LET elems == [i \in DOMAIN v |-> Encode(v[i], ty.elem)]
            IN  IF \E i \in DOMAIN v : elems[i].t = "malformed" THEN Malformed
                ELSE JArr(elems)
      [] ty.k = "struct" ->
            LET kept == {n \in FieldNames(ty) :
                            ~(FieldOf(ty, n).omitempty /\ IsEmptyValue(v[n], FieldOf(ty, n).ty))}
                byKey(key) == CHOOSE n \in kept : FieldOf(ty, n).json = key
                members == [key \in {FieldOf(ty, n).json : n \in kept} |->
                               Encode(v[byKey(key)], FieldOf(ty, byKey(key)).ty)]
            IN  IF \E key \in DOMAIN members : members[key].t = "malformed" THEN Malformed
                ELSE JObj(members)
      [] OTHER -> Malformed

\* json.Marshal(v)
jsonMarshal(v, ty) ==
    LET j == Encode(v, ty) IN [err |-> j.t = "malformed", bytes |-> j]

\* Go error values.
NoError == [isNil |-> TRUE, msg |-> ""]
ErrorOf(msg) == [isNil |-> FALSE, msg |-> msg]
\* The error encoding/json returns (its text is not modelled further).
JSONError == ErrorOf("json: cannot unmarshal")

\* ---------------------------------------------------- protocol data types

EmptyStruct == StructType("", <<>>)

RequestType ==
    StructType("Request",
        <<Field("JSONRPC", "jsonrpc", StringType), Field("ID", "id", RequestIDType),
          Field("Method", "method", StringType),
          FieldO("Params", "params", RawMessageType)>>)

NotificationType ==
    StructType("Notification",
        <<Field("JSONRPC", "jsonrpc", StringType), Field("Method", "method", StringType),
          FieldO("Params", "params", RawMessageType)>>)

ErrorObjectType ==
    StructType("ErrorObject",
        <<Field("Code", "code", IntType), Field("Message", "message", StringType),
          FieldO("Data", "data", AnyType)>>)

ResponseType ==
    StructType("Response",
        <<Field("JSONRPC", "jsonrpc", StringType), Field("ID", "id", RequestIDType),
          FieldO("Result", "result", RawMessageType),
          FieldO("Error", "error", PtrTo(ErrorObjectType))>>)

ImplementationInfoType ==
    StructType("ImplementationInfo",
        <<Field("Name", "name", StringType), Field("Version", "version", StringType),
          FieldO("Title", "title", StringType)>>)

ClientCapabilitiesType ==
    StructType("ClientCapabilities",
        <<FieldO("Roots", "roots", PtrTo(EmptyStruct)),
          FieldO("Sampling", "sampling", PtrTo(EmptyStruct)),
          FieldO("Elicitation", "elicitation", PtrTo(EmptyStruct))>>)

ServerToolCapabilitiesType ==
    StructType("ServerToolCapabilities", <<FieldO("ListChanged", "listChanged", BoolType)>>)

ServerResourceCapabilitiesType ==
    StructType("ServerResourceCapabilities",
        <<FieldO("ListChanged", "listChanged", BoolType),
          FieldO("Subscribe", "subscribe", BoolType)>>)

ServerPromptCapabilitiesType ==
    StructType("ServerPromptCapabilities", <<FieldO("ListChanged", "listChanged", BoolType)>>)

ServerCapabilitiesType ==
    StructType("ServerCapabilities",
        <<FieldO("Tools", "tools", PtrTo(ServerToolCapabilitiesType)),
          FieldO("Resources", "resources", PtrTo(ServerResourceCapabilitiesType)),
          FieldO("Prompts", "prompts", PtrTo(ServerPromptCapabilitiesType)),
          FieldO("Logging", "logging", PtrTo(EmptyStruct))>>)

InitializeRequestType ==
    StructType("InitializeRequest",
        <<Field("ProtocolVersion", "protocolVersion", StringType),
          Field("ClientInfo", "clientInfo", ImplementationInfoType),
          Field("Capabilities", "capabilities", ClientCapabilitiesType)>>)

InitializeResultType ==
    StructType("InitializeResult",
        <<Field("ProtocolVersion", "protocolVersion", StringType),
          Field("ServerInfo", "serverInfo", ImplementationInfoType),
          Field("Capabilities", "capabilities", ServerCapabilitiesType),
          FieldO("Instructions", "instructions", StringType)>>)

ToolType ==
    StructType("Tool",
        <<Field("Name", "name", StringType), FieldO("Title", "title", StringType),
          FieldO("Description", "description", StringType),
          FieldO("InputSchema", "inputSchema", RawMessageType)>>)

ListToolsResultType ==
    StructType("ListToolsResult", <<Field("Tools", "tools", SliceOf(ToolType))>>)

CallToolRequestType ==
    StructType("CallToolRequest",
        <<Field("Name", "name", StringType),
          FieldO("Arguments", "arguments", ArgumentsType)>>)

ContentBlockType ==
    StructType("ContentBlock",
        <<Field("Type", "type", StringType), FieldO("Text", "text", StringType)>>)

CallToolResultType ==
    StructType("CallToolResult",
        <<Field("Content", "content", SliceOf(ContentBlockType)),
          FieldO("IsError", "isError", BoolType)>>)

\* ------------------------------------------ tool parameter types and handlers

AddParams ==
    StructType("AddParams",
        <<FieldD("A", "a", "The first number to add.", Float64Type),
          FieldD("B", "b", "The second number to add.", Float64Type)>>)

DivParams ==
    StructType("DivParams",
        <<FieldD("A", "a", "The dividend.", Float64Type),
          FieldD("B", "b", "The divisor.", Float64Type)>>)

EchoParams ==
    StructType("EchoParams", <<FieldD("Message", "message", "The text to log.", StringType)>>)

\* A value handed to ToolRegistration.Handler: nil, a value that is no function, or
\* a function with its parameter types, its result types and its body.
NilHandler == [kind |-> "nil"]
StringHandler == [kind |-> "string"]
Func(in, out, body) == [kind |-> "func", in |-> in, out |-> out, body |-> body]

\* func(ctx context.Context, p *AddParams) (float64, error)
hAdd == Func(<<ContextType, PtrTo(AddParams)>>, <<Float64Type, ErrorType>>, "add")
\* func(p *DivParams) (float64, error): fails on a zero divisor
hDiv == Func(<<PtrTo(DivParams)>>, <<Float64Type, ErrorType>>, "div")
\* func(ctx context.Context, p *EchoParams) error: fails on an empty message
hEcho == Func(<<ContextType, PtrTo(EchoParams)>>, <<ErrorType>>, "echo")
\* func(p *EchoParams)
hFire == Func(<<PtrTo(EchoParams)>>, <<>>, "fire")
\* func(ctx context.Context) error
hCtxOnly == Func(<<ContextType>>, <<ErrorType>>, "tick")
\* func() error
hNoParams == Func(<<>>, <<ErrorType>>, "none")
\* func(p *AddParams, q *EchoParams) error
hTwoPlain == Func(<<PtrTo(AddParams), PtrTo(EchoParams)>>, <<ErrorType>>, "two")
\* func(ctx context.Context, p *AddParams, q *EchoParams) error
hThree == Func(<<ContextType, PtrTo(AddParams), PtrTo(EchoParams)>>, <<ErrorType>>, "three")
\* func(p AddParams) error
hByValue == Func(<<AddParams>>, <<ErrorType>>, "byvalue")
\* func(ctx context.Context, p *string) error
hPtrString == Func(<<ContextType, PtrTo(StringType)>>, <<ErrorType>>, "ptrstring")
\* func(p *EchoParams) error: blocks forever (for { } or a receive that never comes)
hHang == Func(<<PtrTo(EchoParams)>>, <<ErrorType>>, "hang")
\* Whether a call of the handler comes back.
Returns(h) == h.body # "hang"

\* A typed Go value, as reflect.Value holds it.
Val(ty, v) == [ty |-> ty, v |-> v]

\* What the handler's body returns for the arguments it is called with (the
\* decoded parameter struct is the last argument).
HandlerBody(body, args) ==
    LET p == args[Len(args)].v.elem
    IN  CASE body = "add" -> <<Val(Float64Type, p.A + p.B), Val(ErrorType, NoError)>>
          [] body = "div" ->
                IF p.B = 0 THEN <<Val(Float64Type, 0), Val(ErrorType, ErrorOf("division by zero"))>>
                ELSE <<Val(Float64Type, p.A \div p.B), Val(ErrorType, NoError)>>
          [] body = "echo" ->
                IF p.Message = "" THEN <<Val(ErrorType, ErrorOf("empty message"))>>
                ELSE <<Val(ErrorType, NoError)>>
          [] OTHER -> <<>>

\* reflect.Type.String of a parameter type.
RECURSIVE TypeString(_)
TypeString(ty) ==
    CASE ty.k = "ptr" -> "*" \o TypeString(ty.elem)
      [] ty.k = "struct" -> "main." \o ty.name
      [] ty.k = "interface" -> ty.name
      [] OTHER -> ty.k

\* ------------------------------------------------------- schema synthesis

\* The JSON Schema type the reflector gives a Go type.
SchemaTypeOf(ty) ==
    CASE ty.k = "string" -> "string"
      [] ty.k = "float64" -> "number"
      [] ty.k = "int" -> "integer"
      [] ty.k = "bool" -> "boolean"
      [] ty.k = "slice" -> "array"
      [] OTHER -> "object"

\* The fields generateSchemaForType looks at: those with a json tag other than "-".
TaggedFields(t) == SelectSeq(t.fields, LAMBDA f : f.json # "" /\ f.json # "-")

\* The fields the reflector describes: all but those tagged json:"-", each under
\* the name of its json tag, or under its Go name when it has no tag.
ReflectedFields(t) == SelectSeq(t.fields, LAMBDA f : f.json # "-")
PropertyName(f) == IF f.json # "" THEN f.json ELSE f.name

\* jsonschema.Reflector{DoNotReference: true}.Reflect of a struct type: one property
\* per described field, and the fields without omitempty required.
Reflect(t) ==
    LET fs == ReflectedFields(t)
    IN  [Properties |-> [key \in {PropertyName(fs[i]) : i \in DOMAIN fs} |->
                            LET f == fs[CHOOSE i \in DOMAIN fs : PropertyName(fs[i]) = key]
                            IN  [Type |-> SchemaTypeOf(f.ty), Description |-> ""]],
         Required |-> [i \in DOMAIN SelectSeq(fs, LAMBDA f : ~f.omitempty) |->
                          PropertyName(SelectSeq(fs, LAMBDA f : ~f.omitempty)[i])]]

\* json.MarshalIndent of the schema.
MarshalSchema(schema) ==
    JObj(("$schema" :> JStr("https://json-schema.org/draft/2020-12/schema"))
         @@ ("type" :> JStr("object"))
         @@ ("additionalProperties" :> JBool(FALSE))
         @@ ("properties" :>
                JObj([key \in DOMAIN schema.Properties |->
                        JObj(("type" :> JStr(schema.Properties[key].Type))
                             @@ (IF schema.Properties[key].Description = "" THEN EmptyObj
                                 ELSE ("description" :> JStr(schema.Properties[key].Description))))]))
         @@ (IF Len(schema.Required) = 0 THEN EmptyObj
             ELSE ("required" :> JArr([i \in DOMAIN schema.Required |-> JStr(schema.Required[i])]))))

\* generateSchemaForType as it would be if step 3 were left out: required as the
\* reflector sets it.
generateSchemaForTypeKeepingOptional(t0) ==
    LET t == IF Kind(t0) = "Ptr" THEN t0.elem ELSE t0
    IN  IF Kind(t) # "Struct"
        THEN [schema |-> JObj(("type" :> JStr("object")) @@ ("properties" :> JObj(EmptyObj))),
              err |-> NoError]
        ELSE LET base == Reflect(t)
                 fs == TaggedFields(t)
                 described == [key \in DOMAIN base.Properties |->
                                  IF \E i \in DOMAIN fs : fs[i].json = key /\ fs[i].desc # ""
                                  THEN [base.Properties[key] EXCEPT !.Description =
                                          fs[CHOOSE i \in DOMAIN fs : fs[i].json = key].desc]
                                  ELSE base.Properties[key]]
             IN  [schema |-> MarshalSchema([Properties |-> described,
                                            Required |-> base.Required]),
                  err |-> NoError]

\* generateSchemaForType: [schema, err].
generateSchemaForType(t0) ==
    LET t == IF Kind(t0) = "Ptr" THEN t0.elem ELSE t0
    IN  IF Kind(t) # "Struct"
        THEN [schema |-> JObj(("type" :> JStr("object")) @@ ("properties" :> JObj(EmptyObj))),
              err |-> NoError]
        ELSE LET base == Reflect(t)
                 fs == TaggedFields(t)
                 described == [key \in DOMAIN base.Properties |->
                                  IF \E i \in DOMAIN fs : fs[i].json = key /\ fs[i].desc # ""
                                  THEN [base.Properties[key] EXCEPT !.Description =
                                          fs[CHOOSE i \in DOMAIN fs : fs[i].json = key].desc]
                                  ELSE base.Properties[key]]
                 required == base.Required \o [i \in DOMAIN fs |-> fs[i].json]
             IN  [schema |-> MarshalSchema([Properties |-> described, Required |-> required]),
                  err |-> NoError]

\* ------------------------------------------------------------ registration

\* What a registration call produced: the registry, the error returned, and
\* whether the call panicked instead of returning.
RegOutcome(ts, err, panicked) == [tools |-> ts, err |-> err, panicked |-> panicked]

\* The definition as it would be stored if the caller's input schema were kept.
setInputSchemaUnlessGiven(toolDef, inputSchema) ==
    IF toolDef.InputSchema.t = "absent" THEN [toolDef EXCEPT !.InputSchema = inputSchema]
    ELSE toolDef

\* toolDef.InputSchema = inputSchema, on registerSingleTool's own copy of the
\* caller's definition
setInputSchema(toolDef, inputSchema) == [toolDef EXCEPT !.InputSchema = inputSchema]

\* Server.registerSingleTool
registerSingleTool(ts, reg) ==
    LET toolDef == reg.Definition
        handlerFn == reg.Handler
        fail(msg) == RegOutcome(ts, ErrorOf(msg), FALSE)
    IN  IF toolDef.Name = "" THEN fail("tool definition must include a name")
        \* reflect.ValueOf(nil) is the zero Value, whose Type() panics
        ELSE IF handlerFn.kind = "nil" THEN RegOutcome(ts, NoError, TRUE)
        ELSE IF handlerFn.kind # "func" THEN fail("handler must be a function")
        ELSE
        LET numIn == Len(handlerFn.in)
            takesContext == numIn > 0 /\ ImplementsContext(handlerFn.in[1])
            expectedArgCount == IF takesContext THEN 2 ELSE 1
        IN  IF numIn # expectedArgCount
            THEN fail("handler has incorrect number of arguments (expected "
                      \o FormatInt(expectedArgCount) \o ", got " \o FormatInt(numIn) \o ")")
            ELSE
            LET inputType == handlerFn.in[numIn]
            IN  IF Kind(inputType) # "Ptr" \/ Kind(inputType.elem) # "Struct"
                THEN fail("handler's parameter type must be a pointer to a struct, but got "
                          \o TypeString(inputType))
                ELSE
                LET gen == generateSchemaForType(inputType)
                    stored == setInputSchema(toolDef, gen.schema)
                IN  IF ~gen.err.isNil
                    THEN fail("could not generate schema for type " \o TypeString(inputType)
                              \o ": " \o gen.err.msg)
                    ELSE IF toolDef.Name \in DOMAIN ts
                    THEN fail("tool with name '" \o toolDef.Name \o "' already registered")
                    ELSE RegOutcome(
                            (toolDef.Name :> [Definition |-> stored,
                                              handlerValue |-> handlerFn,
                                              inputType |-> inputType,
                                              takesContext |-> takesContext]) @@ ts,
                            NoError, FALSE)

RECURSIVE RegisterFrom(_, _, _)
\* The loop of RegisterTools from the i-th registration on.
RegisterFrom(ts, registrations, i) ==
    IF i > Len(registrations) THEN RegOutcome(ts, NoError, FALSE)
    ELSE LET one == registerSingleTool(ts, registrations[i])
         IN  IF one.panicked THEN one
             ELSE IF ~one.err.isNil
             THEN RegOutcome(one.tools,
                             ErrorOf("failed to register tool '"
                                     \o registrations[i].Definition.Name \o "': "
                                     \o one.err.msg),
                             FALSE)
             ELSE RegisterFrom(one.tools, registrations, i + 1)

\* Server.RegisterTools
RegisterTools(ts, registrations) == RegisterFrom(ts, registrations, 1)

\* ------------------------------------------------------- response writers

\* A fresh http.ResponseWriter: no header, no status line, no body.
NewResponseWriter == [header |-> EmptyObj, status |-> 0, body |-> Absent]
SetHeader(w, key, value) == [w EXCEPT !.header = (key :> value) @@ @]
\* http.Error: a plain-text body under the given status.
httpError(w, text, code) ==
    [SetHeader(w, "Content-Type", "text/plain; charset=utf-8") EXCEPT
        !.status = code, !.body = [t |-> "text", v |-> text]]

\* writeErrorResponse's switch on the code: the HTTP status of an error response
statusFor(code) ==
    CASE code \in {-32700, -32600, -32602} -> 400
      [] code = -32601 -> 404
      [] OTHER -> 500

\* writeErrorResponse as it would be if the response were built with a result
\* member too (Result: json.RawMessage("null")).
writeErrorResponseWithResult(w, id, code, message, data) ==
    LET dataStr == IF ~data.isNil THEN data.msg ELSE ""
        errorObj == [Code |-> code, Message |-> message,
                     Data |-> IF dataStr # "" THEN GoString(dataStr) ELSE NilValue]
        resp == [JSONRPC |-> "2.0", ID |-> id, Result |-> JNull,
                 Error |-> PtrValue(errorObj)]
    IN  [SetHeader(w, "Content-Type", "application/json") EXCEPT
            !.status = statusFor(code), !.body = Encode(resp, ResponseType)]

\* writeErrorResponse
writeErrorResponse(w, id, code, message, data) ==
    LET dataStr == IF ~data.isNil THEN data.msg ELSE ""
        errorObj == [Code |-> code, Message |-> message,
                     Data |-> IF dataStr # "" THEN GoString(dataStr) ELSE NilValue]
        resp == [JSONRPC |-> "2.0", ID |-> id, Result |-> Absent,
                 Error |-> PtrValue(errorObj)]
    IN  [SetHeader(w, "Content-Type", "application/json") EXCEPT
            !.status = statusFor(code), !.body = Encode(resp, ResponseType)]

\* writeSuccessResponse; ty is the Go type of result
writeSuccessResponse(w, id, result, ty) ==
    LET m == jsonMarshal(result, ty)
        resp == [JSONRPC |-> "2.0", ID |-> id, Result |-> m.bytes, Error |-> NilPtr]
    IN  IF m.err
        THEN writeErrorResponse(w, id, -32603,
                 "Internal server error: failed to marshal result",
                 ErrorOf("json: error calling MarshalJSON"))
        ELSE [SetHeader(w, "Content-Type", "application/json") EXCEPT
                !.status = 200, !.body = Encode(resp, ResponseType)]

\* ------------------------------------------------------- method handlers

\* NewServer("GoCalculatorServer", "1.0.0", ServerCapabilities{Tools: &ServerToolCapabilities{}})
ServerInfo == [Name |-> "GoCalculatorServer", Version |-> "1.0.0", Title |-> ""]
ServerCapabilities ==
    [Tools |-> PtrValue([ListChanged |-> FALSE]), Resources |-> NilPtr,
     Prompts |-> NilPtr, Logging |-> NilPtr]

\* context.Background(): never cancelled
Background == [ctx |-> "background", cancelled |-> FALSE]

\* Outcome as it would be if serving a request emptied the tool registry.
OutcomeWithoutTools(s, w, invoked, panicked) ==
    [s |-> [s EXCEPT !.tools = EmptyObj], w |-> w, invoked |-> invoked, panicked |-> panicked]

\* What handling one HTTP request produced: the server's maps (with the clock it
\* reads), the response writer, the handler invocations made, whether the goroutine
\* panicked. A handler whose result depends on the clock or on the iteration order
\* of a map yields the set of its possible outcomes.
Outcome(s, w, invoked, panicked) ==
    [s |-> s, w |-> w, invoked |-> invoked, panicked |-> panicked]

\* fmt.Sprintf("session-%d", now)
SessionID(now) == "session-" \o FormatInt(now)

\* The readings time.Now().UnixNano() may give after the reading `last`: the wall
\* clock does not run backwards here, and two readings may be equal.
Readings(last) == last..MaxClock

\* Server.handleInitialize with the clock reading `now`
initializeAt(s, w, req, now) ==
    LET d == jsonUnmarshal(req.Params, InitializeRequestType)
        initParams == d.val
        negotiatedVersion == initParams.ProtocolVersion
        sessionID == SessionID(now)
        result == [ProtocolVersion |-> negotiatedVersion, ServerInfo |-> ServerInfo,
                   Capabilities |-> ServerCapabilities, Instructions |-> ""]
    IN  Outcome(
            [s EXCEPT !.clock = now,
                      !.sessions =
                    (sessionID :> [ClientCapabilities |-> initParams.Capabilities]) @@ @],
            writeSuccessResponse(SetHeader(w, "Mcp-Session-Id", sessionID),
                                 req.ID, result, InitializeResultType),
            <<>>, FALSE)

\* handleInitialize as it would be if the session were stored before the params
\* are checked.
handleInitializeStoreFirst(s, w, req) ==
    IF jsonUnmarshal(req.Params, InitializeRequestType).err
    THEN {Outcome([s EXCEPT !.clock = now,
                            !.sessions = (SessionID(now) :>
                                [ClientCapabilities |-> Zero(ClientCapabilitiesType)]) @@ @],
                  writeErrorResponse(w, req.ID, -32602,
                         "Invalid params for initialize", JSONError), <<>>, FALSE) :
            now \in Readings(s.clock)}
    ELSE {initializeAt(s, w, req, now) : now \in Readings(s.clock)}

\* Server.handleInitialize
handleInitialize(s, w, req) ==
    IF jsonUnmarshal(req.Params, InitializeRequestType).err
    THEN {Outcome(s, writeErrorResponse(w, req.ID, -32602,
                         "Invalid params for initialize", JSONError), <<>>, FALSE)}
    ELSE {initializeAt(s, w, req, now) : now \in Readings(s.clock)}

\* The orders in which ranging over a map with key set S may yield its keys.
Orders(S) == {o \in [1..Cardinality(S) -> S] : \A x \in S : \E i \in DOMAIN o : o[i] = x}

\* handleListTools as it would be if the loop stopped one tool short.
handleListToolsOneShort(s, w, req) ==
    {Outcome(s, writeSuccessResponse(w, req.ID,
                    [Tools |-> [i \in 1..(Len(order) - 1) |-> s.tools[order[i]].Definition]],
                    ListToolsResultType),
             <<>>, FALSE) : order \in Orders(DOMAIN s.tools)}

\* Server.handleListTools: `range s.tools` yields the tools in any order
handleListTools(s, w, req) ==
    {Outcome(s, writeSuccessResponse(w, req.ID,
                    [Tools |-> [i \in DOMAIN order |-> s.tools[order[i]].Definition]],
                    ListToolsResultType),
             <<>>, FALSE) : order \in Orders(DOMAIN s.tools)}

\* reflect.Value.IsNil is defined for these kinds only
Nillable(ty) == Kind(ty) \in {"Chan", "Func", "Interface", "Map", "Ptr", "Slice"}

\* fmt.Sprintf("%v", v)
Sprint(val) ==
    CASE val.ty.k = "string" -> val.v
      [] val.ty.k \in {"float64", "int"} -> FormatInt(val.v)
      [] val.ty.k = "bool" -> IF val.v THEN "true" ELSE "false"
      [] val.ty = ErrorType -> IF val.v.isNil THEN "<nil>" ELSE val.v.msg
      [] OTHER -> "?"

\* handleCallTool's lookup: tool, exists := s.tools[name]
lookup(s, name) ==
    [exists |-> name \in DOMAIN s.tools,
     tool |-> IF name \in DOMAIN s.tools THEN s.tools[name] ELSE NilValue]

\* toolNotFound as it would be if it answered with the method-not-found code.
toolNotFoundAsMethod(w, id, name) ==
    writeErrorResponse(w, id, -32601, "Tool not found: " \o name, NoError)

\* handleCallTool's answer to a name that is not registered
toolNotFound(w, id, name) ==
    writeErrorResponse(w, id, -32602, "Tool not found: " \o name, NoError)

\* decodeArguments as it would be if the error of json.Unmarshal were dropped.
decodeArgumentsUnchecked(arguments, inputType) ==
    LET argsBytes == jsonMarshal(arguments, ArgumentsType).bytes
        dec == jsonUnmarshal(argsBytes, inputType.elem)
    IN  [err |-> FALSE, inputValue |-> Val(inputType, PtrValue(dec.val))]

\* decodeArguments as it would be if the arguments were validated against the
\* schema's required list first.
decodeArgumentsValidated(arguments, inputType) ==
    LET schema == generateSchemaForType(inputType).schema
        required == IF "required" \in DOMAIN schema.v
                    THEN {schema.v["required"].v[i].v : i \in DOMAIN schema.v["required"].v}
                    ELSE {}
        argsBytes == jsonMarshal(arguments, ArgumentsType).bytes
        dec == jsonUnmarshal(argsBytes, inputType.elem)
        missing == \E key \in required : arguments.go = "nil" \/ key \notin DOMAIN arguments.v
    IN  [err |-> dec.err \/ missing, inputValue |-> Val(inputType, PtrValue(dec.val))]

\* handleCallTool's decoding of the arguments into a fresh value of the tool's
\* parameter type: marshal the map again, unmarshal into reflect.New(inputType.Elem())
decodeArguments(arguments, inputType) ==
    LET argsBytes == jsonMarshal(arguments, ArgumentsType).bytes
        dec == jsonUnmarshal(argsBytes, inputType.elem)
    IN  [err |-> dec.err, inputValue |-> Val(inputType, PtrValue(dec.val))]

\* callArgs as it would be if the context were never passed.
callArgsWithoutContext(takesContext, inputValue) == <<inputValue>>

\* handleCallTool's argument list: the context first when the tool takes one
callArgs(takesContext, inputValue) ==
    (IF takesContext THEN <<Val(ContextType, Background)>> ELSE <<>>) \o <<inputValue>>

\* errorResult as it would be if IsError were left unset.
errorResultUnflagged(resultErr) ==
    [Content |-> <<[Type |-> "text", Text |-> resultErr.msg]>>, IsError |-> FALSE]

\* handleCallTool's result of a handler that returned the error resultErr
errorResult(resultErr) ==
    [Content |-> <<[Type |-> "text", Text |-> resultErr.msg]>>, IsError |-> TRUE]

\* resultText as it would be if it rendered the last result instead of the first.
resultTextOfLast(results) ==
    IF Len(results) > 1 THEN Sprint(results[Len(results)])
    ELSE "Operation completed successfully."

\* handleCallTool's text of a handler's results when it returned no error
resultText(results) ==
    IF Len(results) > 1 THEN Sprint(results[1])
    ELSE "Operation completed successfully."

\* handleCallTool's result of a handler that returned no error
successResult(text) ==
    [Content |-> <<[Type |-> "text", Text |-> text]>>, IsError |-> FALSE]

\* Server.handleCallTool
handleCallTool(s, w, req) ==
    LET cp == jsonUnmarshal(req.Params, CallToolRequestType)
        callParams == cp.val
        found == lookup(s, callParams.Name)
        tool == found.tool
        dec == decodeArguments(callParams.Arguments, tool.inputType)
        args == callArgs(tool.takesContext, dec.inputValue)
        results == HandlerBody(tool.handlerValue.body, args)
        invoked == <<[handler |-> tool.handlerValue, args |-> args]>>
        errVal == results[Len(results)]
    IN  IF cp.err
        THEN Outcome(s, writeErrorResponse(w, req.ID, -32602,
                            "Invalid params for tools/call", JSONError), <<>>, FALSE)
        ELSE IF ~found.exists
        THEN Outcome(s, toolNotFound(w, req.ID, callParams.Name), <<>>, FALSE)
        ELSE IF dec.err
        THEN Outcome(s, writeErrorResponse(w, req.ID, -32602,
                            "Invalid arguments for tool " \o callParams.Name, JSONError),
                     <<>>, FALSE)
        \* results[len(results)-1] of no results: index out of range
        ELSE IF Len(results) = 0 THEN Outcome(s, w, invoked, TRUE)
        \* IsNil of a value that cannot be nil, or a non-nil last result that is no error
        ELSE IF ~Nillable(errVal.ty) \/ (~errVal.v.isNil /\ errVal.ty # ErrorType)
        THEN Outcome(s, w, invoked, TRUE)
        ELSE IF ~errVal.v.isNil
        THEN Outcome(s, writeSuccessResponse(w, req.ID, errorResult(errVal.v),
                                             CallToolResultType), invoked, FALSE)
        ELSE Outcome(s, writeSuccessResponse(w, req.ID, successResult(resultText(results)),
                                             CallToolResultType), invoked, FALSE)

\* ------------------------------------------------------------------ router

\* handleRequest as it would be if tools/list and tools/call were refused until a
\* session exists.
handleRequestAfterInitialize(s, w, req) ==
    CASE req.Method = "initialize" -> handleInitialize(s, w, req)
      [] req.Method \in {"tools/list", "tools/call"} /\ s.sessions = EmptyObj ->
            {Outcome(s, writeErrorResponse(w, req.ID, -32600, "Server not initialized",
                                           NoError), <<>>, FALSE)}
      [] req.Method = "tools/list" -> handleListTools(s, w, req)
      [] req.Method = "tools/call" -> {handleCallTool(s, w, req)}
      [] OTHER -> {Outcome(s, writeErrorResponse(w, req.ID, -32601, "Method not found", NoError),
                           <<>>, FALSE)}

\* Server.handleRequest
handleRequest(s, w, req) ==
    CASE req.Method = "initialize" -> handleInitialize(s, w, req)
      [] req.Method = "tools/list" -> handleListTools(s, w, req)
      [] req.Method = "tools/call" -> {handleCallTool(s, w, req)}
      [] OTHER -> {Outcome(s, writeErrorResponse(w, req.ID, -32601, "Method not found", NoError),
                           <<>>, FALSE)}

\* Server.handleNotification
handleNotification(s, w, n) ==
    CASE n.Method = "notifications/initialized" -> Outcome(s, [w EXCEPT !.status = 202], <<>>, FALSE)
      [] OTHER -> Outcome(s, [w EXCEPT !.status = 202], <<>>, FALSE)

\* Server.handleMCPRequest
handleMCPRequest(s, w, r) ==
    LET raw == jsonUnmarshal(r.Body, RawMapType)
        rawMessage == raw.val
        req == jsonUnmarshal(r.Body, RequestType)
        notif == jsonUnmarshal(r.Body, NotificationType)
    IN  IF r.Method = "GET" THEN {Outcome(s, [w EXCEPT !.status = 200], <<>>, FALSE)}
        ELSE IF r.Method # "POST"
        THEN {Outcome(s, httpError(w, "Method not allowed", 405), <<>>, FALSE)}
        ELSE IF r.ReadErr
        THEN {Outcome(s, httpError(w, "Failed to read request body", 500), <<>>, FALSE)}
        ELSE IF raw.err
        THEN {Outcome(s, writeErrorResponse(w, NilID, -32700, "Parse error: Invalid JSON",
                                            JSONError), <<>>, FALSE)}
        ELSE IF "id" \in DOMAIN rawMessage
        THEN IF req.err
             THEN {Outcome(s, writeErrorResponse(w, NilID, -32700,
                                  "Parse error: Invalid Request structure", JSONError),
                           <<>>, FALSE)}
             ELSE handleRequest(s, w, req.val)
        ELSE IF notif.err THEN {Outcome(s, [w EXCEPT !.status = 400], <<>>, FALSE)}
        ELSE {handleNotification(s, w, notif.val)}

\* ------------------------------------------------------------------ inputs

ToolNames == {"t1", "t2"}

\* The handlers the application may try to register under a name.
HandlersFor(n) ==
    CASE n = "t1" -> {hAdd, hEcho, NilHandler}
      [] n = "t2" -> {hDiv, hFire, hCtxOnly}
      [] OTHER -> {hAdd}

\* The description a caller gives the tool it registers with handler h.
DescriptionOf(h) == IF h.kind = "func" THEN "runs " \o h.body ELSE "runs nothing"

Registrations ==
    {[Definition |-> [Name |-> n, Title |-> "", Description |-> DescriptionOf(h),
                      InputSchema |-> JStr("caller-supplied")],
      Handler |-> h] : <<n, h>> \in UNION {{n} \X HandlersFor(n) : n \in ToolNames \cup {""}}}

Batches == UNION {[1..n -> Registrations] : n \in 0..MaxBatch}

ClientCaps == {JObj(EmptyObj), JObj("roots" :> JObj(EmptyObj))}

InitParams ==
    {JObj(("protocolVersion" :> JStr("2025-03-26"))
          @@ ("clientInfo" :> JObj(("name" :> JStr("client")) @@ ("version" :> JStr("0.1"))))
          @@ ("capabilities" :> c)) : c \in ClientCaps}
    \cup {JNull, JObj("protocolVersion" :> JNum(1))}

ArgumentSets ==
    {JObj(("a" :> JNum(6)) @@ ("b" :> JNum(3))),
     JObj(("a" :> JNum(4)) @@ ("b" :> JNum(0))),
     JObj("message" :> JStr("hi")),
     JObj(("a" :> JStr("two")) @@ ("message" :> JNum(5))),
     JArr(<<>>)}

CallParams ==
    {JObj(("name" :> JStr(n)) @@ ("arguments" :> a)) :
        n \in ToolNames \cup {"nope"}, a \in ArgumentSets}
    \cup {JObj("name" :> JStr(n)) : n \in ToolNames \cup {"nope"}}
    \cup {JObj("name" :> JNum(5))}

\* The members of a body: "id" (or none), "method", "params" (or none).
IdMembers ==
    {EmptyObj}
    \cup {("id" :> i) : i \in {JNull, JStr("r1"), JNum(7), JBool(TRUE), JArr(<<>>),
                               JObj(EmptyObj)}}
MethodNames == {"initialize", "tools/list", "tools/call", "notifications/initialized", "ping"}
MethodMembers == {("method" :> JStr(m)) : m \in MethodNames} \cup {("method" :> JNum(1))}
Envelope(i, m, p) == JObj(("jsonrpc" :> JStr("2.0")) @@ i @@ m @@ p)

\* Requests whose jsonrpc member is no string.
VersionMisfits ==
    {JObj(("jsonrpc" :> JNum(2)) @@ ("id" :> JStr("r1")) @@ ("method" :> JStr(m))) :
        m \in {"initialize", "tools/list"}}

\* The request bodies: texts that are no JSON object; every id form with every
\* method and no params; initialize and tools/call with their params; requests
\* with a jsonrpc member that is no string.
Bodies ==
    {Malformed, JNull, JArr(<<>>), JStr("ping"), JNum(7), JBool(TRUE)}
    \cup VersionMisfits
    \cup {Envelope(i, m, EmptyObj) : i \in IdMembers, m \in MethodMembers}
    \cup {Envelope(i, ("method" :> JStr("initialize")), ("params" :> p)) :
            i \in {("id" :> JStr("r1")), ("id" :> JNull)}, p \in InitParams}
    \cup {Envelope(i, ("method" :> JStr("tools/call")), ("params" :> p)) :
            i \in {("id" :> JStr("r1")), ("id" :> JNum(7))}, p \in CallParams}

HTTPRequests ==
    {[Method |-> "GET", Body |-> Absent, ReadErr |-> FALSE],
     [Method |-> "DELETE", Body |-> Absent, ReadErr |-> FALSE],
     [Method |-> "POST", Body |-> Absent, ReadErr |-> TRUE]}
    \cup {[Method |-> "POST", Body |-> b, ReadErr |-> FALSE] : b \in Bodies}

\* ----------------------------------------------------------------- actions

Idle == [op |-> "idle"]

Goroutines == 1..MaxGoroutines

\* A worker that has not been handed anything yet.
Ready == [pc |-> "ready"]

\* The zero sync.RWMutex: no one holds it.
Unlocked == 0

Init ==
    /\ tools = EmptyObj
    /\ sessions = EmptyObj
    /\ clock = 0
    /\ issued = <<>>
    /\ call = Idle
    /\ goroutines = [g \in Goroutines |-> Ready]
    /\ locks = [toolLock |-> Unlocked, toolReaders |-> {}, sessionLock |-> Unlocked]

\* The application calls Server.RegisterTools(registrations).
RegisterToolsCall(registrations) ==
    /\ call = Idle
    /\ \E out \in {RegisterTools(tools, registrations)} :
          /\ tools' = out.tools
          /\ call' = [op |-> "RegisterTools", registrations |-> registrations,
                      err |-> out.err, panicked |-> out.panicked,
                      pre |-> [tools |-> tools, sessions |-> sessions]]
    /\ UNCHANGED <<sessions, clock, issued, goroutines, locks>>

\* The session a response hands out: the Mcp-Session-Id header it carries and the
\* capabilities the client declared in the request's params.
Created(r, out) ==
    IF "Mcp-Session-Id" \in DOMAIN out.w.header
    THEN <<[id |-> out.w.header["Mcp-Session-Id"],
            caps |-> jsonUnmarshal(r.Body.v["params"], InitializeRequestType).val.Capabilities]>>
    ELSE <<>>

\* The transport hands one HTTP request to Server.handleMCPRequest, which runs to
\* its end (or to a panic, which net/http recovers: the connection gets no response).
ServeHTTP(r) ==
    /\ call = Idle
    /\ \E out \in handleMCPRequest([tools |-> tools, sessions |-> sessions, clock |-> clock],
                                    NewResponseWriter, r) :
          \E created \in {Created(r, out)} :
              /\ Len(issued) + Len(created) <= MaxInit
              /\ tools' = out.s.tools
              /\ sessions' = out.s.sessions
              /\ clock' = out.s.clock
              /\ issued' = issued \o created
              /\ call' = [op |-> "http", r |-> r, w |-> out.w, invoked |-> out.invoked,
                          panicked |-> out.panicked,
                          pre |-> [tools |-> tools, sessions |-> sessions]]
              /\ UNCHANGED <<goroutines, locks>>

\* The operation is over: its request, its response writer and its results are gone.
\* A panic of RegisterTools is not recovered: it ends the process.
Return ==
    /\ call # Idle
    /\ ~(call.op = "RegisterTools" /\ call.panicked)
    /\ call' = Idle
    /\ UNCHANGED <<tools, sessions, clock, issued, goroutines, locks>>

Next ==
    \/ call = Idle /\ \E registrations \in Batches : RegisterToolsCall(registrations)
    \/ call = Idle /\ \E r \in HTTPRequests : ServeHTTP(r)
    \/ Return

Spec == Init /\ [][Next]_vars

\* ------------------------------------------- the schema synthesizer on its own

\* Fields a handler's parameter struct may have: described or not, omitempty or
\* not, without a json tag, and hidden from JSON.
FieldPool ==
    {FieldD("A", "a", "The first number to add.", Float64Type),
     FieldD("B", "b", "The second number to add.", Float64Type),
     Field("Message", "message", StringType),
     FieldO("Loud", "loud", BoolType),
     [FieldD("Limit", "limit", "The most results to give.", IntType) EXCEPT !.omitempty = TRUE],
     Field("Note", "", StringType),
     Field("Secret", "-", StringType)}

ParamStructs ==
    {StructType("Params", fs) :
        fs \in UNION {{q \in [1..n -> FieldPool] : \A i, j \in 1..n : i # j => q[i] # q[j]} :
                        n \in 0..MaxFields}}

\* The types generateSchemaForType is called with: structs, pointers to them, and
\* types that are no struct.
SchemaInputs ==
    ParamStructs \cup {PtrTo(t) : t \in ParamStructs} \cup {StringType, PtrTo(Float64Type)}

\* generateSchemaForType is called with the type t and returns.
GenerateSchemaCall(t) ==
    /\ call = Idle
    /\ \E out \in {generateSchemaForType(t)} :
          call' = [op |-> "generateSchemaForType", t |-> t,
                   schema |-> out.schema, err |-> out.err]
    /\ UNCHANGED <<tools, sessions, clock, issued, goroutines, locks>>

SchemaNext ==
    \/ call = Idle /\ \E t \in SchemaInputs : GenerateSchemaCall(t)
    \/ Return

SchemaSpec == Init /\ [][SchemaNext]_vars

\* ------------------------------------ every handler signature, and dispatch

\* The handlers of every shape an application may hand to RegisterTools: the
\* accepted ones, nil, a value that is no function, and functions with no
\* parameter, a lone context, two parameters without a context, three parameters,
\* a struct by value, and a pointer to something that is no struct.
SignatureHandlers ==
    {hAdd, hDiv, hEcho, hFire, NilHandler, StringHandler, hCtxOnly, hNoParams,
     hTwoPlain, hThree, hByValue, hPtrString}

\* One registration per name and handler; the caller's definition carries an
\* input schema of its own.
SignatureRegistrations ==
    {[Definition |-> [Name |-> n, Title |-> "", Description |-> DescriptionOf(h),
                      InputSchema |-> JStr("caller-supplied")],
      Handler |-> h] : n \in ToolNames \cup {""}, h \in SignatureHandlers}

\* The arguments of the tools/call requests: complete, partial, with a key that
\* names no field, with a value of the wrong type, empty, null, and no object.
DispatchArguments ==
    ArgumentSets \cup {JObj("a" :> JNum(6)), JObj(EmptyObj), JNull}

\* tools/call requests, with and without an arguments member, tools/list, and
\* initialize, so that requests are served with and without sessions in the store.
DispatchRequests ==
    {[Method |-> "POST",
      Body |-> Envelope(("id" :> JStr("r1")), ("method" :> JStr("tools/call")),
                        ("params" :> p)),
      ReadErr |-> FALSE] :
        p \in {JObj(("name" :> JStr(n)) @@ ("arguments" :> a)) :
                    n \in ToolNames, a \in DispatchArguments}
              \cup {JObj("name" :> JStr(n)) : n \in ToolNames \cup {"nope"}}
              \cup {JNull, JObj("name" :> JNum(5))}}
    \cup {[Method |-> "POST",
           Body |-> Envelope(("id" :> JStr("r1")), ("method" :> JStr("tools/list")), EmptyObj),
           ReadErr |-> FALSE]}
    \cup {[Method |-> "POST",
           Body |-> Envelope(("id" :> JStr("r1")), ("method" :> JStr("initialize")),
                             ("params" :> p)),
           ReadErr |-> FALSE] :
              p \in {q \in InitParams \ {JNull} :
                        /\ "capabilities" \in DOMAIN q.v
                        /\ q.v["capabilities"] = JObj(EmptyObj)}}

DispatchNext ==
    \/ call = Idle /\ \E reg \in SignatureRegistrations : RegisterToolsCall(<<reg>>)
    \/ call = Idle /\ \E r \in DispatchRequests : ServeHTTP(r)
    \/ Return

DispatchSpec == Init /\ [][DispatchNext]_vars

\* ------------------------------------------------- workers running concurrently

\* The transport runs one goroutine per request, and the application may call
\* RegisterTools from several goroutines. Each goroutine below runs one operation,
\* one statement that touches shared state at a time.

\* The initialize requests the concurrent workers are handed: each declaration of
\* capabilities, and params that do not decode.
InitializeRequests ==
    {jsonUnmarshal(Envelope(("id" :> JStr("r1")), ("method" :> JStr("initialize")),
                            ("params" :> p)), RequestType).val : p \in InitParams \ {JNull}}

\* The registrations the concurrent workers are handed: two different tools under
\* one name, and one under another name that fails validation.
ConcurrentRegistrations ==
    {reg \in Registrations :
        \/ reg.Definition.Name = "t1" /\ reg.Handler \in {hAdd, hEcho}
        \/ reg.Definition.Name = "t2" /\ reg.Handler = hCtxOnly}

\* The batch the application registers while requests are served: a tool whose
\* handler never returns, and a second tool.
ServedBatch ==
    <<[Definition |-> [Name |-> "t1", Title |-> "", Description |-> DescriptionOf(hHang),
                       InputSchema |-> JStr("caller-supplied")],
       Handler |-> hHang],
      [Definition |-> [Name |-> "t2", Title |-> "", Description |-> DescriptionOf(hDiv),
                       InputSchema |-> JStr("caller-supplied")],
       Handler |-> hDiv]>>

\* The workers in the middle of an operation.
Running == {g \in Goroutines : goroutines[g].pc \notin {"ready", "done"}}

\* Lock as it would be if it did not wait for the holder.
LockWithoutWaiting(holder) == TRUE

\* sync.RWMutex.Lock returns only when no one holds the lock.
Lock(holder) == holder = Unlocked

\* sync.RWMutex.RLock returns when no writer holds the lock or waits for it.
RLock(holder) == holder = Unlocked

\* handleInitialize up to the lock: the params are decoded and the session id is
\* made from the clock; params that do not decode are answered at once.
InitializeBegin(g, req) ==
    /\ goroutines[g].pc = "ready"
    /\ IF jsonUnmarshal(req.Params, InitializeRequestType).err
       THEN /\ \E out \in handleInitialize([tools |-> tools, sessions |-> sessions,
                                             clock |-> clock], NewResponseWriter, req) :
                  goroutines' = [goroutines EXCEPT ![g] =
                        [pc |-> "done", op |-> "initialize", req |-> req, w |-> out.w]]
            /\ UNCHANGED clock
       ELSE \E now \in Readings(clock) :
               /\ clock' = now
               /\ goroutines' = [goroutines EXCEPT ![g] =
                        [pc |-> "sessionLock", op |-> "initialize", req |-> req,
                         initParams |-> jsonUnmarshal(req.Params, InitializeRequestType).val,
                         sessionID |-> SessionID(now)]]
    /\ UNCHANGED <<tools, sessions, issued, call, locks>>

\* s.sessionLock.Lock()
SessionLock(g) ==
    /\ goroutines[g].pc = "sessionLock"
    /\ Lock(locks.sessionLock)
    /\ locks' = [locks EXCEPT !.sessionLock = g]
    /\ goroutines' = [goroutines EXCEPT ![g].pc = "sessionStore"]
    /\ UNCHANGED <<tools, sessions, clock, issued, call>>

\* s.sessions[sessionID] = &SessionState{ClientCapabilities: initParams.Capabilities}
SessionStore(g) ==
    /\ goroutines[g].pc = "sessionStore"
    /\ sessions' = (goroutines[g].sessionID :>
                       [ClientCapabilities |-> goroutines[g].initParams.Capabilities])
                   @@ sessions
    /\ goroutines' = [goroutines EXCEPT ![g].pc = "sessionUnlock"]
    /\ UNCHANGED <<tools, clock, issued, call, locks>>

\* s.sessionLock.Unlock()
SessionUnlock(g) ==
    /\ goroutines[g].pc = "sessionUnlock"
    /\ locks' = [locks EXCEPT !.sessionLock = Unlocked]
    /\ goroutines' = [goroutines EXCEPT ![g].pc = "respond"]
    /\ UNCHANGED <<tools, sessions, clock, issued, call>>

\* What the rest of handleInitialize writes for each request and each session id:
\* the result, the Mcp-Session-Id header, the response.
InitializeResponses ==
    [req \in InitializeRequests, sessionID \in {SessionID(now) : now \in 0..MaxClock} |->
        LET initParams == jsonUnmarshal(req.Params, InitializeRequestType).val
            result == [ProtocolVersion |-> initParams.ProtocolVersion,
                       ServerInfo |-> ServerInfo,
                       Capabilities |-> ServerCapabilities, Instructions |-> ""]
        IN  writeSuccessResponse(SetHeader(NewResponseWriter, "Mcp-Session-Id", sessionID),
                                 req.ID, result, InitializeResultType)]

\* The rest of handleInitialize: the response is written.
InitializeRespond(g) ==
    /\ goroutines[g].pc = "respond"
    /\ LET me == goroutines[g]
       IN  /\ goroutines' = [goroutines EXCEPT ![g] =
                    [pc |-> "done", op |-> "initialize", req |-> me.req,
                     w |-> InitializeResponses[me.req, me.sessionID]]]
           /\ issued' = Append(issued, [id |-> me.sessionID,
                                        caps |-> me.initParams.Capabilities])
    /\ UNCHANGED <<tools, sessions, clock, call, locks>>

\* The checks of registerSingleTool before its lock (the definition, the handler,
\* the schema synthesis) read nothing of the server, so running them against an
\* empty registry gives their error, or the entry to store.
Checks ==
    [reg \in ConcurrentRegistrations \cup {ServedBatch[i] : i \in DOMAIN ServedBatch} |->
        registerSingleTool(EmptyObj, reg)]

\* The worker has run the checks of reg and goes on to the lock, or back to
\* RegisterTools with the error.
Checked(me, reg, rest) ==
    LET checked == Checks[reg]
    IN  [pc |-> IF checked.err.isNil THEN "toolLock" ELSE "registerReturn",
         op |-> "RegisterTools", reg |-> reg, rest |-> rest, err |-> checked.err,
         entry |-> IF checked.err.isNil THEN checked.tools[reg.Definition.Name]
                   ELSE Ready,
         during |-> me.during]

\* RegisterTools(registrations) enters its loop and registerSingleTool runs the
\* checks of the first registration.
RegisterBegin(g, registrations) ==
    /\ goroutines[g].pc = "ready"
    /\ \E next \in {Checked([during |-> Running], Head(registrations), Tail(registrations))} :
          goroutines' = [goroutines EXCEPT ![g] = next]
    /\ UNCHANGED <<tools, sessions, clock, issued, call, locks>>

\* s.toolLock.Lock(): the writer takes the lock's place, which keeps other
\* writers and new readers out, and has the lock at once when no reader holds it.
ToolLock(g) ==
    /\ goroutines[g].pc = "toolLock"
    /\ Lock(locks.toolLock)
    /\ locks' = [locks EXCEPT !.toolLock = g]
    /\ goroutines' = [goroutines EXCEPT ![g].pc =
            IF locks.toolReaders = {} THEN "toolCheck" ELSE "toolLockWait"]
    /\ UNCHANGED <<tools, sessions, clock, issued, call>>

\* Lock, having announced the writer, waits for the readers that hold the lock.
ToolLockWait(g) ==
    /\ goroutines[g].pc = "toolLockWait"
    /\ locks.toolReaders = {}
    /\ goroutines' = [goroutines EXCEPT ![g].pc = "toolCheck"]
    /\ UNCHANGED <<tools, sessions, clock, issued, call, locks>>

\* if _, exists := s.tools[toolDef.Name]; exists { return ... already registered }
ToolCheck(g) ==
    /\ goroutines[g].pc = "toolCheck"
    /\ LET name == goroutines[g].reg.Definition.Name
       IN  goroutines' = [goroutines EXCEPT ![g] =
                IF name \in DOMAIN tools
                THEN [@ EXCEPT !.pc = "toolUnlock",
                               !.err = ErrorOf("tool with name '" \o name
                                               \o "' already registered")]
                ELSE [@ EXCEPT !.pc = "toolInsert"]]
    /\ UNCHANGED <<tools, sessions, clock, issued, call, locks>>

\* s.tools[toolDef.Name] = internalRegisteredTool{...}
ToolInsert(g) ==
    /\ goroutines[g].pc = "toolInsert"
    /\ tools' = (goroutines[g].reg.Definition.Name :> goroutines[g].entry) @@ tools
    /\ goroutines' = [goroutines EXCEPT ![g].pc = "toolUnlock"]
    /\ UNCHANGED <<sessions, clock, issued, call, locks>>

\* The deferred s.toolLock.Unlock()
ToolUnlock(g) ==
    /\ goroutines[g].pc = "toolUnlock"
    /\ locks' = [locks EXCEPT !.toolLock = Unlocked]
    /\ goroutines' = [goroutines EXCEPT ![g].pc = "registerReturn"]
    /\ UNCHANGED <<tools, sessions, clock, issued, call>>

\* registerSingleTool has returned to the loop of RegisterTools, which returns its
\* error wrapped, goes on to the next registration, or returns nil after the last.
RegisterReturn(g) ==
    /\ goroutines[g].pc = "registerReturn"
    /\ LET me == goroutines[g]
       IN  goroutines' = [goroutines EXCEPT ![g] =
                IF ~me.err.isNil
                THEN [pc |-> "done", op |-> "RegisterTools", reg |-> me.reg,
                      err |-> ErrorOf("failed to register tool '" \o me.reg.Definition.Name
                                      \o "': " \o me.err.msg),
                      during |-> me.during]
                ELSE IF me.rest # <<>> THEN Checked(me, Head(me.rest), Tail(me.rest))
                ELSE [pc |-> "done", op |-> "RegisterTools", reg |-> me.reg,
                      err |-> NoError, during |-> me.during]]
    /\ UNCHANGED <<tools, sessions, clock, issued, call, locks>>

ConcurrentNext ==
    \/ \E g \in Goroutines : \E req \in InitializeRequests : InitializeBegin(g, req)
    \/ \E g \in Goroutines : SessionLock(g)
    \/ \E g \in Goroutines : SessionStore(g)
    \/ \E g \in Goroutines : SessionUnlock(g)
    \/ \E g \in Goroutines : InitializeRespond(g)
    \/ \E g \in Goroutines : \E reg \in ConcurrentRegistrations : RegisterBegin(g, <<reg>>)
    \/ \E g \in Goroutines : ToolLock(g)
    \/ \E g \in Goroutines : ToolCheck(g)
    \/ \E g \in Goroutines : ToolInsert(g)
    \/ \E g \in Goroutines : ToolUnlock(g)
    \/ \E g \in Goroutines : RegisterReturn(g)

ConcurrentSpec == Init /\ [][ConcurrentNext]_vars

\* -------------------------------- requests served while tools are registered

\* The requests of this part, as handleMCPRequest hands them to handleRequest.
ServedRequest(method, params) ==
    jsonUnmarshal(Envelope(("id" :> JStr("r1")), ("method" :> JStr(method)), params),
                  RequestType).val
ListRequest == ServedRequest("tools/list", EmptyObj)
CallRequests ==
    {ServedRequest("tools/call", ("params" :> p)) :
        p \in {JObj(("name" :> JStr("t1")) @@ ("arguments" :> JObj("message" :> JStr("hi")))),
               JObj(("name" :> JStr("t2"))
                    @@ ("arguments" :> JObj(("a" :> JNum(6)) @@ ("b" :> JNum(3))))),
               JObj("name" :> JNum(5))}}
InitializeRequest ==
    CHOOSE req \in InitializeRequests :
        /\ ~jsonUnmarshal(req.Params, InitializeRequestType).err
        /\ req.Params.v["capabilities"] = JObj(EmptyObj)

\* The worker is inside a handler that never returns.
Stuck(g) == goroutines[g].pc = "inHandler" /\ ~Returns(goroutines[g].found.tool.handlerValue)

\* The registries the batch can leave behind: none, the first, or both of its tools.
ServedRegistries ==
    {RegisterTools(EmptyObj, SubSeq(ServedBatch, 1, n)).tools : n \in 0..Len(ServedBatch)}

\* What handleListTools writes over each registry; it reads s.tools alone.
ListOutcomes ==
    [ts \in ServedRegistries |->
        handleListTools([tools |-> ts, sessions |-> EmptyObj, clock |-> 0],
                        NewResponseWriter, ListRequest)]

\* What a lookup can have found: nothing, or one tool of the batch.
LookedRegistries ==
    {EmptyObj} \cup UNION {{(n :> ts[n]) : n \in DOMAIN ts} : ts \in ServedRegistries}

\* What handleCallTool does with each request over what its lookup found; it reads
\* nothing else of the server.
CallOutcomes ==
    [req \in CallRequests, ts \in LookedRegistries |->
        handleCallTool([tools |-> ts, sessions |-> EmptyObj, clock |-> 0],
                       NewResponseWriter, req)]

\* The initialize requests being served.
Initializing ==
    {g \in Running : goroutines[g].op = "initialize"}

\* RUnlock as it would be if the read lock were kept.
RUnlockSkipped(readers, g) == readers

\* sync.RWMutex.RUnlock
RUnlock(readers, g) == readers \ {g}

\* handleRequest hands a tools/list request to handleListTools.
ListBegin(g, req) ==
    /\ goroutines[g].pc = "ready"
    /\ goroutines' = [goroutines EXCEPT ![g] =
            [pc |-> "listRLock", op |-> "tools/list", req |-> req]]
    /\ UNCHANGED <<tools, sessions, clock, issued, call, locks>>

\* s.toolLock.RLock() of handleListTools
ListRLock(g) ==
    /\ goroutines[g].pc = "listRLock"
    /\ RLock(locks.toolLock)
    /\ locks' = [locks EXCEPT !.toolReaders = @ \cup {g}]
    /\ goroutines' = [goroutines EXCEPT ![g].pc = "listRespond"]
    /\ UNCHANGED <<tools, sessions, clock, issued, call>>

\* handleListTools ranges over s.tools and writes the response, under the read lock.
ListRespond(g) ==
    /\ goroutines[g].pc = "listRespond"
    /\ \E out \in ListOutcomes[tools] :
          goroutines' = [goroutines EXCEPT ![g] =
                [pc |-> "listRUnlock", op |-> "tools/list", w |-> out.w]]
    /\ UNCHANGED <<tools, sessions, clock, issued, call, locks>>

\* The deferred s.toolLock.RUnlock() of handleListTools
ListRUnlock(g) ==
    /\ goroutines[g].pc = "listRUnlock"
    /\ locks' = [locks EXCEPT !.toolReaders = RUnlock(@, g)]
    /\ goroutines' = [goroutines EXCEPT ![g].pc = "done"]
    /\ UNCHANGED <<tools, sessions, clock, issued, call>>

\* handleCallTool decodes the params and answers at once when they do not decode.
CallBegin(g, req) ==
    /\ goroutines[g].pc = "ready"
    /\ IF jsonUnmarshal(req.Params, CallToolRequestType).err
       THEN /\ \E out \in {CallOutcomes[req, EmptyObj]} :
                  goroutines' = [goroutines EXCEPT ![g] =
                        [pc |-> "done", op |-> "tools/call", w |-> out.w]]
       ELSE goroutines' = [goroutines EXCEPT ![g] =
                    [pc |-> "callRLock", op |-> "tools/call", req |-> req]]
    /\ UNCHANGED <<tools, sessions, clock, issued, call, locks>>

\* s.toolLock.RLock() of handleCallTool
CallRLock(g) ==
    /\ goroutines[g].pc = "callRLock"
    /\ RLock(locks.toolLock)
    /\ locks' = [locks EXCEPT !.toolReaders = @ \cup {g}]
    /\ goroutines' = [goroutines EXCEPT ![g].pc = "callLookup"]
    /\ UNCHANGED <<tools, sessions, clock, issued, call>>

\* tool, exists := s.tools[callParams.Name]
CallLookup(g) ==
    /\ goroutines[g].pc = "callLookup"
    /\ \E callParams \in {jsonUnmarshal(goroutines[g].req.Params, CallToolRequestType).val} :
          goroutines' = [goroutines EXCEPT ![g] =
                [pc |-> "callRUnlock", op |-> "tools/call", req |-> goroutines[g].req,
                 found |-> lookup([tools |-> tools], callParams.Name)]]
    /\ UNCHANGED <<tools, sessions, clock, issued, call, locks>>

\* The registry as the worker g saw it in its lookup: the tool it found under the
\* requested name, or nothing.
Looked(g) ==
    IF goroutines[g].found.exists
    THEN (jsonUnmarshal(goroutines[g].req.Params, CallToolRequestType).val.Name
            :> goroutines[g].found.tool)
    ELSE EmptyObj

\* s.toolLock.RUnlock(), and the rest of handleCallTool up to the call of the
\* handler: a tool that was not found and arguments that do not decode are
\* answered.
CallRUnlock(g) ==
    /\ goroutines[g].pc = "callRUnlock"
    /\ locks' = [locks EXCEPT !.toolReaders = RUnlock(@, g)]
    /\ \E out \in {CallOutcomes[goroutines[g].req, Looked(g)]} :
          goroutines' = [goroutines EXCEPT ![g] =
                IF out.invoked = <<>>
                THEN [pc |-> "done", op |-> "tools/call", w |-> out.w]
                ELSE [@ EXCEPT !.pc = "callHandler"]]
    /\ UNCHANGED <<tools, sessions, clock, issued, call>>

\* results := tool.handlerValue.Call(callArgs): the handler starts to run.
CallHandler(g) ==
    /\ goroutines[g].pc = "callHandler"
    /\ goroutines' = [goroutines EXCEPT ![g].pc = "inHandler"]
    /\ UNCHANGED <<tools, sessions, clock, issued, call, locks>>

\* The handler returns, and handleCallTool writes the response of its results.
HandlerReturn(g) ==
    /\ goroutines[g].pc = "inHandler"
    /\ Returns(goroutines[g].found.tool.handlerValue)
    /\ \E out \in {CallOutcomes[goroutines[g].req, Looked(g)]} :
          goroutines' = [goroutines EXCEPT ![g] =
                [pc |-> "done", op |-> "tools/call", w |-> out.w]]
    /\ UNCHANGED <<tools, sessions, clock, issued, call, locks>>

\* The goroutine of a finished operation ends, and the transport or the
\* application starts another.
Recycle(g) ==
    /\ goroutines[g].pc = "done"
    /\ goroutines' = [goroutines EXCEPT ![g] = Ready]
    /\ UNCHANGED <<tools, sessions, clock, issued, call, locks>>

\* The steps of the worker g.
ServeStep(g) ==
    \/ Len(issued) + Cardinality(Initializing) < MaxInit /\ InitializeBegin(g, InitializeRequest)
    \/ SessionLock(g)
    \/ SessionStore(g)
    \/ SessionUnlock(g)
    \/ InitializeRespond(g)
    \/ RegisterBegin(g, ServedBatch)
    \/ ToolLock(g)
    \/ ToolLockWait(g)
    \/ ToolCheck(g)
    \/ ToolInsert(g)
    \/ ToolUnlock(g)
    \/ RegisterReturn(g)
    \/ ListBegin(g, ListRequest)
    \/ ListRLock(g)
    \/ ListRespond(g)
    \/ ListRUnlock(g)
    \/ \E req \in CallRequests : CallBegin(g, req)
    \/ CallRLock(g)
    \/ CallLookup(g)
    \/ CallRUnlock(g)
    \/ CallHandler(g)
    \/ HandlerReturn(g)
    \/ Recycle(g)

ServeNext == \E g \in Goroutines : ServeStep(g)

ServeSpec == Init /\ [][ServeNext]_vars

\* The steps of the worker g that wait for nothing: a goroutine that can run is run.
Runs(g) ==
    \/ SessionStore(g)
    \/ SessionUnlock(g)
    \/ InitializeRespond(g)
    \/ ToolLockWait(g)
    \/ ToolCheck(g)
    \/ ToolInsert(g)
    \/ ToolUnlock(g)
    \/ RegisterReturn(g)
    \/ ListRespond(g)
    \/ ListRUnlock(g)
    \/ CallLookup(g)
    \/ CallRUnlock(g)
    \/ CallHandler(g)
    \/ HandlerReturn(g)

\* The steps of the worker g that take a lock: sync.Mutex and sync.RWMutex hand a
\* lock that keeps being released to a goroutine that keeps waiting for it.
Locks(g) ==
    \/ SessionLock(g)
    \/ ToolLock(g)
    \/ ListRLock(g)
    \/ CallRLock(g)

\* The Go scheduler runs every goroutine that can run, and the locks starve no
\* waiter; whether a request arrives at all is left open.
FairServeSpec ==
    ServeSpec /\ \A g \in Goroutines : WF_vars(Runs(g)) /\ SF_vars(Locks(g))

\* ------------------------------------------------- what a finished call shows

\* RegisterTools has just returned the error it reports (it did not panic).
RegistrationFailed ==
    call.op = "RegisterTools" /\ ~call.panicked /\ ~call.err.isNil

\* The registry as the i-th registration of the finished RegisterTools call found
\* it, when the call got that far: the registrations before it all succeeded.
Reached(i) ==
    LET before == RegisterTools(call.pre.tools, SubSeq(call.registrations, 1, i - 1))
    IN  [reached |-> ~before.panicked /\ before.err.isNil, tools |-> before.tools]

\* A POST whose body was read has just been served.
Posted == call.op = "http" /\ call.r.Method = "POST" /\ ~call.r.ReadErr
\* ... and its body is a JSON object
PostedObject == Posted /\ call.r.Body.t = "obj"
\* ... with an id member / with an id member of an allowed form
HasID == PostedObject /\ "id" \in DOMAIN call.r.Body.v
WellFormedRequest ==
    /\ HasID
    /\ call.r.Body.v["id"].t \in {"null", "str", "num"}
    /\ call.r.Body.v["method"].t = "str"
    /\ call.r.Body.v["jsonrpc"].t = "str"

\* The response is a JSON-RPC envelope / an error envelope with this code.
WroteEnvelope == call.op = "http" /\ call.w.body.t = "obj"
ErrorEnvelope(code) ==
    /\ WroteEnvelope
    /\ "error" \in DOMAIN call.w.body.v
    /\ "result" \notin DOMAIN call.w.body.v
    /\ call.w.body.v["error"].v["code"] = JNum(code)
\* The CallToolResult a success envelope carries, as JSON.
TextResult(text, isError) ==
    JObj(("content" :> JArr(<<JObj(("type" :> JStr("text")) @@ ("text" :> JStr(text)))>>))
         @@ (IF isError THEN ("isError" :> JBool(TRUE)) ELSE EmptyObj))
SuccessEnvelope(result) ==
    /\ WroteEnvelope
    /\ call.w.status = 200
    /\ "error" \notin DOMAIN call.w.body.v
    /\ "result" \in DOMAIN call.w.body.v
    /\ call.w.body.v["result"] = result

\* The request was a tools/call request whose params name a tool.
ToolsCall ==
    /\ WellFormedRequest
    /\ call.r.Body.v["method"] = JStr("tools/call")
    /\ "params" \in DOMAIN call.r.Body.v
    /\ call.r.Body.v["params"].t = "obj"
    /\ "name" \in DOMAIN call.r.Body.v["params"].v
    /\ call.r.Body.v["params"].v["name"].t = "str"
RequestedName == call.r.Body.v["params"].v["name"].v
\* The arguments member of the params; null when there is none.
RequestedArguments ==
    IF "arguments" \in DOMAIN call.r.Body.v["params"].v
    THEN call.r.Body.v["params"].v["arguments"] ELSE JNull
\* The tool the request names, as registered before the request.
RequestedTool == call.pre.tools[RequestedName]
ToolsCallOfRegistered == ToolsCall /\ RequestedName \in DOMAIN call.pre.tools

\* Whether the JSON value j can be stored in a Go value of the scalar type ty.
Fits(j, ty) ==
    \/ j.t = "null"
    \/ ty.k = "string" /\ j.t = "str"
    \/ ty.k \in {"float64", "int"} /\ j.t = "num"
    \/ ty.k = "bool" /\ j.t = "bool"
\* The arguments do not decode into the parameter struct: they are no object, or a
\* member that names a field holds a value of another type.
Undecodable(arguments, struct) ==
    \/ arguments.t \notin {"obj", "null"}
    \/ /\ arguments.t = "obj"
       /\ \E i \in DOMAIN struct.fields :
            /\ struct.fields[i].json \in DOMAIN arguments.v
            /\ ~Fits(arguments.v[struct.fields[i].json], struct.fields[i].ty)
\* The parameter struct the arguments decode into: each field from the member of
\* its name, or zero.
ExpectedParams(arguments, struct) ==
    [n \in FieldNames(struct) |->
        IF /\ arguments.t = "obj"
           /\ FieldOf(struct, n).json \in DOMAIN arguments.v
           /\ arguments.v[FieldOf(struct, n).json].t # "null"
        THEN arguments.v[FieldOf(struct, n).json].v
        ELSE Zero(FieldOf(struct, n).ty)]
\* The argument list the dispatcher owes the requested tool's handler.
ExpectedArgs ==
    LET h == RequestedTool.handlerValue
        ptr == h.in[Len(h.in)]
    IN  (IF Len(h.in) = 2 THEN <<Val(ContextType, Background)>> ELSE <<>>)
        \o <<Val(ptr, PtrValue(ExpectedParams(RequestedArguments, ptr.elem)))>>

\* What the one handler the finished request invoked returned.
Returned == HandlerBody(call.invoked[1].handler.body, call.invoked[1].args)
\* The finished request invoked a handler, which returned a non-nil error.
HandlerFailed ==
    /\ call.op = "http"
    /\ Len(call.invoked) = 1
    /\ Len(Returned) > 0
    /\ ~Returned[Len(Returned)].v.isNil

\* ------------------------------------------------------------------ claims

\* C1: batch registration is atomic. When RegisterTools returns an error because a
\* registration of its batch fails validation, none of the batch's tools is in the
\* registry: the registry equals its state before the call.
C1_AtomicBatch == RegistrationFailed => tools = call.pre.tools

\* C2: tool-name uniqueness. A registration whose name is already in the registry
\* makes RegisterTools return an error, and the registry entry of that name stays
\* exactly as the first registration stored it.
C2_UniqueNames ==
    call.op = "RegisterTools" =>
        \A i \in DOMAIN call.registrations :
            LET name == call.registrations[i].Definition.Name
                found == Reached(i)
            IN  (found.reached /\ name \in DOMAIN found.tools) =>
                    /\ RegistrationFailed
                    /\ tools[name] = found.tools[name]

\* C3: sequential successful initialize calls produce pairwise distinct session
\* ids, and after them each id is a key of the session store mapped to the
\* capabilities its own client declared.
C3_DistinctSessions ==
    \A i \in DOMAIN issued :
        /\ \A j \in DOMAIN issued : i # j => issued[i].id # issued[j].id
        /\ issued[i].id \in DOMAIN sessions
        /\ sessions[issued[i].id].ClientCapabilities = issued[i].caps

\* C4: every JSON-RPC response envelope the router writes, on every path, carries
\* exactly one of result and error: never both, never neither.
C4_ResultXorError ==
    (call.op = "http" /\ call.w.body.t \notin {"absent", "text"}) =>
        /\ call.w.body.t = "obj"
        /\ ("result" \in DOMAIN call.w.body.v) # ("error" \in DOMAIN call.w.body.v)

\* An error envelope has been written: the unknown-method answer, status 404.
C4_Witness ==
    /\ WellFormedRequest
    /\ call.r.Body.v["method"] = JStr("ping")
    /\ ErrorEnvelope(-32601)
    /\ call.w.status = 404

\* C5: handler failure isolation. When the handler a tools/call invokes returns a
\* non-nil error, the answer is a success-level response (HTTP 200, result and no
\* error member) whose CallToolResult has isError true and one text block holding
\* the error's message; registry and session store are unchanged and the serving
\* goroutine has not crashed.
C5_HandlerFailureIsolation ==
    HandlerFailed =>
        /\ ~call.panicked
        /\ SuccessEnvelope(TextResult(Returned[Len(Returned)].v.msg, TRUE))
        /\ tools = call.pre.tools
        /\ sessions = call.pre.sessions

\* The division tool has been called with a zero divisor, with a session open.
C5_Witness ==
    /\ HandlerFailed
    /\ call.invoked[1].handler = hDiv
    /\ SuccessEnvelope(TextResult("division by zero", TRUE))
    /\ sessions # EmptyObj

\* C6: unknown tool. A tools/call whose name is not a key of the registry is
\* answered with a JSON-RPC error envelope of code -32602 under HTTP 400, and no
\* handler is invoked.
C6_UnknownTool ==
    (ToolsCall /\ RequestedName \notin DOMAIN call.pre.tools) =>
        /\ ErrorEnvelope(-32602)
        /\ call.w.status = 400
        /\ call.invoked = <<>>
        /\ ~call.panicked

\* A name no tool has was called while other tools are registered.
C6_Witness ==
    /\ ToolsCall
    /\ RequestedName = "nope"
    /\ DOMAIN call.pre.tools = {"t1", "t2"}
    /\ ErrorEnvelope(-32602)

\* C7: argument decoding errors. When the arguments of a tools/call for a
\* registered tool do not decode into the tool's parameter struct, the answer is a
\* JSON-RPC error of code -32602, the handler is not invoked and the dispatcher
\* does not crash.
C7_ArgumentDecodeError ==
    (ToolsCallOfRegistered /\ Undecodable(RequestedArguments, RequestedTool.inputType.elem)) =>
        /\ ErrorEnvelope(-32602)
        /\ call.invoked = <<>>
        /\ ~call.panicked

\* The addition tool was called with a string where a number belongs.
C7_Witness ==
    /\ ToolsCallOfRegistered
    /\ RequestedTool.handlerValue = hAdd
    /\ RequestedArguments.t = "obj"
    /\ "a" \in DOMAIN RequestedArguments.v
    /\ RequestedArguments.v["a"].t = "str"
    /\ ErrorEnvelope(-32602)

\* C8: round-trip dispatch. A tools/call naming a tool registered with a handler
\* that returns (value, nil), with arguments that decode into its parameter struct,
\* invokes that tool's handler and no other, once, with the decoded arguments, and
\* is answered with a non-error CallToolResult whose one text block is the returned
\* value rendered as text.
C8_RoundTripDispatch ==
    (/\ ToolsCallOfRegistered
     /\ ~Undecodable(RequestedArguments, RequestedTool.inputType.elem)
     /\ Len(RequestedTool.handlerValue.out) = 2
     /\ HandlerBody(RequestedTool.handlerValue.body, ExpectedArgs)[2].v.isNil) =>
        /\ call.invoked = <<[handler |-> RequestedTool.handlerValue, args |-> ExpectedArgs]>>
        /\ ~call.panicked
        /\ SuccessEnvelope(TextResult(
               Sprint(HandlerBody(RequestedTool.handlerValue.body, ExpectedArgs)[1]), FALSE))

\* The addition tool was called with a = 6 and b = 3 and answered 9.
C8_Witness ==
    /\ ToolsCallOfRegistered
    /\ RequestedTool.handlerValue = hAdd
    /\ RequestedArguments = JObj(("a" :> JNum(6)) @@ ("b" :> JNum(3)))
    /\ call.invoked[1].args[2].v.elem = [A |-> 6, B |-> 3]
    /\ SuccessEnvelope(TextResult("9", FALSE))

\* C9: malformed JSON. A POST body that is not a JSON object is answered with a
\* JSON-RPC error response of code -32700 with a null id under HTTP 400, and no
\* method handler runs.
C9_MalformedJSON ==
    (Posted /\ call.r.Body.t # "obj") =>
        /\ ErrorEnvelope(-32700)
        /\ call.w.body.v["id"] = JNull
        /\ call.w.status = 400
        /\ call.invoked = <<>>
        /\ sessions = call.pre.sessions

\* C10: message classification. A JSON object with an id member (null included)
\* is handled as a Request and always receives a JSON-RPC envelope; one with no id
\* member is handled as a Notification and never receives an envelope, only an HTTP
\* status: 202 for any method name, 400 when it cannot be parsed.
C10_Classification ==
    PostedObject =>
        IF "id" \in DOMAIN call.r.Body.v
        THEN /\ WroteEnvelope
             /\ ("result" \in DOMAIN call.w.body.v) \/ ("error" \in DOMAIN call.w.body.v)
        ELSE /\ call.w.body.t = "absent"
             /\ call.w.status = IF call.r.Body.v["method"].t = "str" THEN 202 ELSE 400
             /\ call.invoked = <<>>

\* C11: id echo. The response to every successfully parsed Request carries the
\* request's id unchanged: a string id as the same string, a numeric id as the
\* same number, a null id as null.
C11_IdEcho ==
    (WellFormedRequest /\ ~call.panicked) =>
        /\ WroteEnvelope
        /\ call.w.body.v["id"] = call.r.Body.v["id"]

\* The registration rules, stated on the registration itself: a name, a function,
\* one parameter or two with a context first, the last a pointer to a struct, and
\* a name the registry ts does not hold yet.
ValidHandler(h) ==
    /\ h.kind = "func"
    /\ \/ Len(h.in) = 1 /\ ~ImplementsContext(h.in[1])
       \/ Len(h.in) = 2 /\ ImplementsContext(h.in[1])
    /\ h.in[Len(h.in)].k = "ptr"
    /\ h.in[Len(h.in)].elem.k = "struct"
ValidRegistration(reg, ts) ==
    /\ reg.Definition.Name # ""
    /\ ValidHandler(reg.Handler)
    /\ reg.Definition.Name \notin DOMAIN ts

\* The texts by which registerSingleTool names the rule a registration broke.
RuleTexts(name) ==
    {"tool definition must include a name",
     "handler must be a function",
     "tool with name '" \o name \o "' already registered"}
    \cup {"handler has incorrect number of arguments (expected " \o FormatInt(e)
          \o ", got " \o FormatInt(g) \o ")" : e \in 1..2, g \in 0..3}
    \cup {"handler's parameter type must be a pointer to a struct, but got " \o TypeString(ty) :
            ty \in {StringType, Float64Type, AddParams, DivParams, EchoParams, ContextType}}

\* C12: every invalid registration is reported as an error value. When a
\* registration that RegisterTools reaches breaks a rule, the call does not panic,
\* returns an error naming the rule and the tool's name, and does not add the tool.
C12_InvalidRegistrationIsError ==
    call.op = "RegisterTools" =>
        \A i \in DOMAIN call.registrations :
            LET reg == call.registrations[i]
                found == Reached(i)
            IN  (found.reached /\ ~ValidRegistration(reg, found.tools)) =>
                    /\ ~call.panicked
                    /\ ~call.err.isNil
                    /\ \E rule \in RuleTexts(reg.Definition.Name) :
                            call.err.msg = "failed to register tool '" \o reg.Definition.Name
                                           \o "': " \o rule
                    /\ tools = found.tools

\* The request just served ended in a failure: an error status, an error result
\* of the handler, or a crash of the serving goroutine.
RequestFailed ==
    /\ call.op = "http"
    /\ \/ call.w.status >= 400
       \/ HandlerFailed
       \/ call.panicked

\* C13: failure locality. A request that ends in a failure (parse error, unknown
\* method, invalid initialize params, invalid tools/call params, unknown tool,
\* argument decode error, handler-returned error) leaves the tool registry and the
\* session store exactly as they were before the request.
C13_FailureLocality ==
    RequestFailed => (tools = call.pre.tools /\ sessions = call.pre.sessions)

\* An initialize with params that do not decode was refused while a tool is
\* registered and a session is open.
C13_Witness ==
    /\ WellFormedRequest
    /\ call.r.Body.v["method"] = JStr("initialize")
    /\ ErrorEnvelope(-32602)
    /\ call.pre.tools # EmptyObj
    /\ call.pre.sessions # EmptyObj
    /\ sessions = call.pre.sessions

\* A stored tool definition as JSON: name, the title and description that are not
\* empty, and the input schema.
ToolJSON(def) ==
    JObj(("name" :> JStr(def.Name))
         @@ (IF def.Title # "" THEN ("title" :> JStr(def.Title)) ELSE EmptyObj)
         @@ (IF def.Description # "" THEN ("description" :> JStr(def.Description)) ELSE EmptyObj)
         @@ ("inputSchema" :> def.InputSchema))
ToolsList == WellFormedRequest /\ call.r.Body.v["method"] = JStr("tools/list")
\* The tools array of the success envelope written.
ListedTools == call.w.body.v["result"].v["tools"].v

\* C14: tools/list completeness. A tools/list request is answered with a success
\* response whose tools list holds exactly one entry per registered tool and no
\* others, each the definition the registry holds, and does not change the registry.
C14_ListComplete ==
    ToolsList =>
        /\ WroteEnvelope
        /\ call.w.status = 200
        /\ "error" \notin DOMAIN call.w.body.v
        /\ "result" \in DOMAIN call.w.body.v
        /\ DOMAIN call.w.body.v["result"].v = {"tools"}
        /\ call.w.body.v["result"].v["tools"].t = "arr"
        /\ Len(ListedTools) = Cardinality(DOMAIN call.pre.tools)
        /\ {ListedTools[i] : i \in DOMAIN ListedTools}
               = {ToolJSON(call.pre.tools[n].Definition) : n \in DOMAIN call.pre.tools}
        /\ tools = call.pre.tools

\* Both tools were registered and listed.
C14_Witness ==
    /\ ToolsList
    /\ DOMAIN call.pre.tools = {"t1", "t2"}
    /\ WroteEnvelope
    /\ Len(ListedTools) = 2
    /\ ListedTools[1].v["name"] # ListedTools[2].v["name"]

\* The request was an initialize request whose params decode: null, or an object
\* whose protocolVersion is a string and whose clientInfo and capabilities are objects.
InitializeParams == call.r.Body.v["params"]
Initialize ==
    /\ WellFormedRequest
    /\ call.r.Body.v["method"] = JStr("initialize")
    /\ "params" \in DOMAIN call.r.Body.v
    /\ \/ InitializeParams.t = "null"
       \/ /\ InitializeParams.t = "obj"
          /\ \A key \in DOMAIN InitializeParams.v :
                CASE key = "protocolVersion" -> Fits(InitializeParams.v[key], StringType)
                  [] key \in {"clientInfo", "capabilities"} ->
                        InitializeParams.v[key].t \in {"obj", "null"}
                  [] OTHER -> TRUE
\* The protocol version the client asked for; empty when it named none.
RequestedVersion ==
    IF InitializeParams.t = "obj" /\ "protocolVersion" \in DOMAIN InitializeParams.v
       /\ InitializeParams.v["protocolVersion"].t = "str"
    THEN InitializeParams.v["protocolVersion"].v ELSE ""
\* The capabilities the client declared, as a ClientCapabilities value.
DeclaredCapabilities ==
    jsonUnmarshal(InitializeParams, InitializeRequestType).val.Capabilities
\* The InitializeResult owed to the client, as JSON.
InitializeResultJSON ==
    JObj(("protocolVersion" :> JStr(RequestedVersion))
         @@ ("serverInfo" :> JObj(("name" :> JStr("GoCalculatorServer"))
                                  @@ ("version" :> JStr("1.0.0"))))
         @@ ("capabilities" :> JObj("tools" :> JObj(EmptyObj))))
HasSessionHeader == call.op = "http" /\ "Mcp-Session-Id" \in DOMAIN call.w.header

\* C15: successful initialize. An initialize request whose params decode adds
\* exactly one new entry to the session store, holding the capabilities the client
\* declared; answers with a success result whose protocolVersion is the requested
\* one verbatim, with the server's info and capabilities; and carries the new
\* session id as a response header. No other kind of response carries that header.
C15_SuccessfulInitialize ==
    /\ Initialize =>
        /\ HasSessionHeader
        /\ LET sid == call.w.header["Mcp-Session-Id"]
           IN  /\ sid \notin DOMAIN call.pre.sessions
               /\ DOMAIN sessions = DOMAIN call.pre.sessions \cup {sid}
               /\ sessions[sid] = [ClientCapabilities |-> DeclaredCapabilities]
               /\ \A other \in DOMAIN call.pre.sessions :
                      sessions[other] = call.pre.sessions[other]
        /\ SuccessEnvelope(InitializeResultJSON)
    /\ (call.op = "http" /\ ~Initialize) => ~HasSessionHeader

\* What the requested tool's handler returns for the arguments the request gives.
ExpectedResults == HandlerBody(RequestedTool.handlerValue.body, ExpectedArgs)
\* A registered tool was called with arguments that decode, and its handler
\* signals no error: it returns nothing, or a nil last result.
CalledWithoutError ==
    /\ ToolsCallOfRegistered
    /\ ~Undecodable(RequestedArguments, RequestedTool.inputType.elem)
    /\ \/ Len(ExpectedResults) = 0
       \/ ExpectedResults[Len(ExpectedResults)].v.isNil

\* C16: result rendering. When the handler of a registered tool signals no error,
\* tools/call answers with a success result whose text is the returned value
\* rendered as text when the handler declares a value, and the fixed completion
\* message when it declares none; a handler with no return value at all still gets
\* a response and does not crash the dispatcher.
C16_ResultRendering ==
    CalledWithoutError =>
        /\ ~call.panicked
        /\ SuccessEnvelope(TextResult(
               IF Len(RequestedTool.handlerValue.out) >= 2
               THEN Sprint(ExpectedResults[1])
               ELSE "Operation completed successfully.", FALSE))

\* The code of the error envelope written.
ErrorCode == call.w.body.v["error"].v["code"].v
WroteError == WroteEnvelope /\ "error" \in DOMAIN call.w.body.v

\* C17: unknown method. A well-formed Request whose method is none of initialize,
\* tools/list, tools/call is answered with a JSON-RPC error of code -32601 carrying
\* the request's id under HTTP 404, and runs no method handler; every error
\* response has the status of its code: 400 for -32700, -32600 and -32602, 404 for
\* -32601, 500 for any other.
C17_UnknownMethod ==
    /\ (/\ WellFormedRequest
        /\ call.r.Body.v["method"].v \notin {"initialize", "tools/list", "tools/call"}) =>
            /\ ErrorEnvelope(-32601)
            /\ call.w.body.v["id"] = call.r.Body.v["id"]
            /\ call.w.status = 404
            /\ call.invoked = <<>>
            /\ tools = call.pre.tools
            /\ sessions = call.pre.sessions
    /\ WroteError =>
            call.w.status = CASE ErrorCode \in {-32700, -32600, -32602} -> 400
                              [] ErrorCode = -32601 -> 404
                              [] OTHER -> 500

\* generateSchemaForType has just returned the schema of a struct type (given
\* directly or by pointer).
SynthesizedType == IF call.t.k = "ptr" THEN call.t.elem ELSE call.t
Synthesized == call.op = "generateSchemaForType" /\ SynthesizedType.k = "struct"
SchemaProperties == call.schema.v["properties"].v
SchemaRequired ==
    IF "required" \in DOMAIN call.schema.v
    THEN {call.schema.v["required"].v[i].v : i \in DOMAIN call.schema.v["required"].v}
    ELSE {}
HasJSONTag(f) == f.json # "" /\ f.json # "-"

\* C18: schema synthesis. For a struct parameter type the synthesized schema has
\* exactly one property for each JSON-tagged field, under the field's JSON name,
\* and no property that is not a field of the struct; a property's description is
\* the field's description tag when it has one; and every JSON-tagged field is
\* listed in required, omitempty or not.
C18_SchemaSynthesis ==
    Synthesized =>
        /\ call.err.isNil
        /\ call.schema.t = "obj"
        /\ \A i \in DOMAIN SynthesizedType.fields :
              LET f == SynthesizedType.fields[i]
              IN  HasJSONTag(f) =>
                    /\ f.json \in DOMAIN SchemaProperties
                    /\ f.desc # "" =>
                          /\ "description" \in DOMAIN SchemaProperties[f.json].v
                          /\ SchemaProperties[f.json].v["description"] = JStr(f.desc)
                    /\ f.json \in SchemaRequired
        /\ \A key \in DOMAIN SchemaProperties :
              \E i \in DOMAIN SynthesizedType.fields :
                  /\ SynthesizedType.fields[i].json # "-"
                  /\ key = IF SynthesizedType.fields[i].json # ""
                           THEN SynthesizedType.fields[i].json
                           ELSE SynthesizedType.fields[i].name

\* The schema of a struct with the described fields a and b and the optional
\* field loud: three properties, all three required.
C18_Witness ==
    /\ Synthesized
    /\ DOMAIN SchemaProperties = {"a", "b", "loud"}
    /\ SchemaProperties["a"].v["description"] = JStr("The first number to add.")
    /\ SchemaRequired = {"a", "b", "loud"}


\* The workers that have finished an initialize with a success response.
Initialized ==
    {g \in Goroutines : /\ goroutines[g].pc = "done"
                        /\ goroutines[g].op = "initialize"
                        /\ goroutines[g].w.status = 200
                        /\ "result" \in DOMAIN goroutines[g].w.body.v}
Quiescent == Running = {}

\* C19: session-store consistency under concurrency. Once every initialize that
\* was started has been answered, the session store has as many entries as there
\* were successful initialize responses, and no two of those responses carry the
\* same session id.
C19_SessionStoreConsistency ==
    Quiescent =>
        /\ Cardinality(DOMAIN sessions) = Cardinality(Initialized)
        /\ \A g, h \in Initialized :
              g # h => goroutines[g].w.header["Mcp-Session-Id"]
                       # goroutines[h].w.header["Mcp-Session-Id"]

\* The workers whose RegisterTools call with a registration of the name n that
\* passes validation has returned.
Registered(n) ==
    {g \in Goroutines : /\ goroutines[g].pc = "done"
                        /\ goroutines[g].op = "RegisterTools"
                        /\ goroutines[g].reg.Definition.Name = n
                        /\ ValidRegistration(goroutines[g].reg, EmptyObj)}
Registering(n) ==
    {g \in Running : /\ goroutines[g].op = "RegisterTools"
                     /\ goroutines[g].reg.Definition.Name = n}
DuplicateError(n) ==
    ErrorOf("failed to register tool '" \o n \o "': tool with name '" \o n
            \o "' already registered")

\* C20: concurrent registration of the same name. When the calls that register a
\* name with a valid registration have all returned, exactly one of them returned
\* nil and every other one returned the duplicate-name error, and the registry's
\* entry for the name holds the handler and the description of the call that
\* returned nil.
C20_ConcurrentSameName ==
    \A n \in ToolNames :
        (Registering(n) = {} /\ Registered(n) # {}) =>
            \E g \in Registered(n) :
                /\ goroutines[g].err = NoError
                /\ \A h \in Registered(n) \ {g} : goroutines[h].err = DuplicateError(n)
                /\ n \in DOMAIN tools
                /\ tools[n].handlerValue = goroutines[g].reg.Handler
                /\ tools[n].Definition.Name = n
                /\ tools[n].Definition.Description = goroutines[g].reg.Definition.Description

\* Two calls that register different tools under one name have overlapped and
\* returned, one with nil and the other with the duplicate-name error.
C20_Witness ==
    \E g, h \in Registered("t1") :
        /\ g \in goroutines[h].during
        /\ goroutines[g].reg.Handler # goroutines[h].reg.Handler
        /\ goroutines[g].err = DuplicateError("t1")
        /\ goroutines[h].err = NoError

FirstBrokenRule(reg, ts) ==
    LET n == reg.Definition.Name
        h == reg.Handler
        ctxFirst == Len(h.in) > 0 /\ ImplementsContext(h.in[1])
        wanted == IF ctxFirst THEN 2 ELSE 1
        last == h.in[Len(h.in)]
    IN  IF n = "" THEN "tool definition must include a name"
        ELSE IF h.kind # "func" THEN "handler must be a function"
        ELSE IF Len(h.in) # wanted
        THEN "handler has incorrect number of arguments (expected " \o FormatInt(wanted)
             \o ", got " \o FormatInt(Len(h.in)) \o ")"
        ELSE IF ~(last.k = "ptr" /\ last.elem.k = "struct")
        THEN "handler's parameter type must be a pointer to a struct, but got "
             \o TypeString(last)
        ELSE IF n \in DOMAIN ts THEN "tool with name '" \o n \o "' already registered"
        ELSE ""

\* C22: the registration checks run in the stated order and the first failing
\* rule is the one reported. A registration that RegisterTools reaches and that
\* breaks a rule makes the call return the error of the first rule it breaks, in
\* the order name, handler is a function, arity and context position, pointer to
\* a struct, duplicate name.
C22_CheckOrder ==
    call.op = "RegisterTools" =>
        \A i \in DOMAIN call.registrations :
            LET reg == call.registrations[i]
                found == Reached(i)
            IN  (found.reached /\ FirstBrokenRule(reg, found.tools) # "") =>
                    /\ ~call.panicked
                    /\ call.err = ErrorOf("failed to register tool '" \o reg.Definition.Name
                                          \o "': " \o FirstBrokenRule(reg, found.tools))

\* The parameter lists the calling convention rejects: none, a lone context, two
\* parameters whose first is no context, and three or more.
RejectedShape(h) ==
    /\ h.kind = "func"
    /\ \/ Len(h.in) = 0
       \/ Len(h.in) = 1 /\ ImplementsContext(h.in[1])
       \/ Len(h.in) = 2 /\ ~ImplementsContext(h.in[1])
       \/ Len(h.in) >= 3

\* C23: calling convention. A tool that RegisterTools adds has a handler with
\* exactly one parameter, and the takes-context flag false, or exactly two
\* parameters of which the first is a context, and the flag true; a handler with
\* no parameter, a lone context, two parameters without a leading context, or
\* three or more parameters is rejected with an error and not added. A tools/call
\* that invokes a handler passes it the background context, which is never
\* cancelled, followed by the decoded parameters when the stored flag is true,
\* and the decoded parameters alone when it is false.
C23_CallingConvention ==
    /\ call.op = "RegisterTools" =>
          /\ \A n \in DOMAIN tools \ DOMAIN call.pre.tools :
                LET h == tools[n].handlerValue
                IN  /\ h.kind = "func"
                    /\ \/ Len(h.in) = 1 /\ ~ImplementsContext(h.in[1])
                                        /\ ~tools[n].takesContext
                       \/ Len(h.in) = 2 /\ ImplementsContext(h.in[1])
                                        /\ tools[n].takesContext
          /\ \A i \in DOMAIN call.registrations :
                (Reached(i).reached /\ RejectedShape(call.registrations[i].Handler)) =>
                    /\ ~call.panicked
                    /\ ~call.err.isNil
                    /\ tools = Reached(i).tools
    /\ (call.op = "http" /\ Len(call.invoked) > 0) =>
          /\ ToolsCallOfRegistered
          /\ Len(call.invoked) = 1
          /\ call.invoked[1].handler = RequestedTool.handlerValue
          /\ LET args == call.invoked[1].args
                 decoded == args[Len(args)]
             IN  /\ Len(args) = IF RequestedTool.takesContext THEN 2 ELSE 1
                 /\ RequestedTool.takesContext =>
                        /\ args[1].ty = ContextType
                        /\ args[1].v.ctx = "background"
                        /\ ~args[1].v.cancelled
                 /\ decoded.ty = RequestedTool.inputType
                 /\ ~decoded.v.isNil

\* With a context tool and a plain tool registered, a tools/call has invoked the
\* context tool's handler with the context and the decoded parameters.
C23_Witness ==
    /\ call.op = "http"
    /\ Len(call.invoked) = 1
    /\ Len(call.invoked[1].args) = 2
    /\ \E n \in DOMAIN tools : ~tools[n].takesContext

\* The finished request was a tools/call for a registered tool with params and
\* arguments that decode.
Dispatchable ==
    /\ ToolsCallOfRegistered
    /\ ~Undecodable(RequestedArguments, RequestedTool.inputType.elem)

\* C24: exactly-once invocation. A request invokes at most one handler; it
\* invokes exactly one, the handler registered under the requested name, when it
\* is a tools/call whose params decode, whose tool exists and whose arguments
\* decode, and none otherwise; a handler that returns an error is not called again.
C24_ExactlyOnce ==
    call.op = "http" =>
        /\ Len(call.invoked) <= 1
        /\ Len(call.invoked) = 1 <=> Dispatchable
        /\ Dispatchable => call.invoked[1].handler = RequestedTool.handlerValue
        /\ HandlerFailed => Len(call.invoked) = 1

\* A tools/call has invoked its handler once, the handler returned an error, and
\* the error was reported without a second invocation.
C24_Witness ==
    /\ Dispatchable
    /\ HandlerFailed
    /\ call.invoked = <<[handler |-> RequestedTool.handlerValue, args |-> ExpectedArgs]>>
    /\ call.w.status = 200

\* C25: a handler that never returns blocks only its own request. Every
\* operation that has started (a tools/call, a tools/list, an initialize, a
\* RegisterTools call) comes to its end, whatever other workers are stuck inside a
\* handler, unless it is itself inside a handler that never returns.
C25_StuckHandlerBlocksOnlyItself ==
    \A g \in Goroutines :
        (g \in Running) ~> (goroutines[g].pc = "done" \/ Stuck(g))

\* While a worker is inside a handler that never returns, another worker holds
\* the registry's write lock in RegisterTools, and no one holds the read lock.
C25_Witness ==
    \E g, h \in Goroutines :
        /\ Stuck(g)
        /\ goroutines[h].pc = "toolCheck"
        /\ locks.toolLock = h
        /\ locks.toolReaders = {}

\* The names of the batch RegisterTools is called with.
BatchNames == {ServedBatch[i].Definition.Name : i \in DOMAIN ServedBatch}
\* The tool names in the response of the tools/list request the worker g served.
Listed(g) ==
    LET listed == goroutines[g].w.body.v["result"].v["tools"].v
    IN  {listed[i].v["name"].v : i \in DOMAIN listed}

\* C26: batch isolation. A tools/list response holds none of the tools of the
\* batch RegisterTools is called with, or all of them; and whenever a tools/list
\* or a tools/call holds the registry's read lock, the registry holds none of the
\* batch's tools or all of them.
C26_BatchIsolation ==
    /\ \A g \in Goroutines :
          (goroutines[g].pc = "done" /\ goroutines[g].op = "tools/list") =>
              Listed(g) \cap BatchNames \in {{}, BatchNames}
    /\ locks.toolReaders # {} => DOMAIN tools \cap BatchNames \in {{}, BatchNames}

\* The body just served has an id member but does not fit the Request structure:
\* its id is a boolean, an array or an object, or its method or jsonrpc member is
\* neither a string nor null.
Misfit ==
    /\ HasID
    /\ \/ call.r.Body.v["id"].t \in {"bool", "arr", "obj"}
       \/ \E member \in {"method", "jsonrpc"} :
             /\ member \in DOMAIN call.r.Body.v
             /\ call.r.Body.v[member].t \notin {"str", "null"}

ServedOver(ss) ==
    {[w |-> out.w, invoked |-> out.invoked, panicked |-> out.panicked,
      tools |-> out.s.tools, sessions |-> out.s.sessions = ss] :
        out \in handleMCPRequest([tools |-> call.pre.tools, sessions |-> ss, clock |-> 0],
                                 NewResponseWriter, call.r)}

\* A tools/list or tools/call request has just been served.
ToolsRequest ==
    /\ WellFormedRequest
    /\ call.r.Body.v["method"] \in {JStr("tools/list"), JStr("tools/call")}

\* C28: tools/list and tools/call are served the same whether or not a session
\* exists: what the server may answer over the session store it has is what it may
\* answer over an empty one, the answer given is one of these, and the session
\* store is left as it was, with no session handed out.
C28_NoSessionGating ==
    ToolsRequest =>
        /\ \E empty \in {ServedOver(EmptyObj)} :
              /\ call.pre.sessions # EmptyObj => ServedOver(call.pre.sessions) = empty
              /\ [w |-> call.w, invoked |-> call.invoked, panicked |-> call.panicked,
                  tools |-> tools, sessions |-> TRUE] \in empty
        /\ sessions = call.pre.sessions
        /\ "Mcp-Session-Id" \notin DOMAIN call.w.header

\* A tools/call has run its handler and succeeded with no session in the store,
\* no initialize having been answered.
C28_Witness ==
    /\ ToolsRequest
    /\ call.r.Body.v["method"] = JStr("tools/call")
    /\ call.pre.sessions = EmptyObj
    /\ issued = <<>>
    /\ Len(call.invoked) = 1
    /\ call.w.status = 200

\* The schema generateSchemaForType gives for the parameter type of the handler
\* stored under the name n.
SynthesizedFor(n) == generateSchemaForType(tools[n].inputType).schema

\* The registrations of the call just made whose tool the call stored: the first
\* of its name in the batch, under a name that was free.
Stored ==
    {i \in DOMAIN call.registrations :
        /\ call.registrations[i].Definition.Name \in DOMAIN tools \ DOMAIN call.pre.tools
        /\ \A j \in 1..(i - 1) :
              call.registrations[j].Definition.Name # call.registrations[i].Definition.Name}

\* C29: the input schema stored for a tool is the one synthesized from its
\* handler's parameter type, in every state; the definition a RegisterTools call
\* stores is the caller's with the caller's own input schema replaced by the
\* synthesized one, the caller's registrations still carry the schema they were
\* given, and each tool tools/list returns carries the synthesized schema.
C29_SchemaReplaced ==
    /\ \A n \in DOMAIN tools :
          /\ tools[n].inputType = tools[n].handlerValue.in[Len(tools[n].handlerValue.in)]
          /\ tools[n].Definition.InputSchema = SynthesizedFor(n)
    /\ call.op = "RegisterTools" =>
          /\ \A i \in Stored :
                LET def == call.registrations[i].Definition
                IN  /\ tools[def.Name].Definition
                          = [def EXCEPT !.InputSchema = SynthesizedFor(def.Name)]
                    /\ tools[def.Name].Definition.InputSchema # def.InputSchema
          /\ \A i \in DOMAIN call.registrations :
                call.registrations[i].Definition.InputSchema = JStr("caller-supplied")
    /\ (ToolsList /\ WroteEnvelope /\ call.w.status = 200) =>
          \A i \in DOMAIN ListedTools :
              /\ ListedTools[i].v["name"].v \in DOMAIN tools
              /\ ListedTools[i].v["inputSchema"] = SynthesizedFor(ListedTools[i].v["name"].v)

\* A registration with an input schema of the caller's has been stored next to
\* a tool registered before.
C29_StoredWitness ==
    /\ call.op = "RegisterTools"
    /\ ~call.panicked
    /\ call.err.isNil
    /\ call.pre.tools # EmptyObj
    /\ Cardinality(Stored) = 1
    /\ \A i \in Stored :
          /\ call.registrations[i].Definition.InputSchema = JStr("caller-supplied")
          /\ tools[call.registrations[i].Definition.Name].Definition.InputSchema.t = "obj"

\* The names the advertised input schema of the requested tool lists as required.
AdvertisedRequired ==
    LET schema == RequestedTool.Definition.InputSchema
    IN  IF "required" \in DOMAIN schema.v
        THEN {schema.v["required"].v[i].v : i \in DOMAIN schema.v["required"].v}
        ELSE {}

\* The members of the requested arguments; none when the arguments are absent or
\* null.
SuppliedKeys == IF RequestedArguments.t = "obj" THEN DOMAIN RequestedArguments.v ELSE {}

\* C30: required fields are not enforced at dispatch. A tools/call for a
\* registered tool whose arguments are absent, null, or an object whose members
\* fit the fields they name, whatever fields it omits and whatever other keys it
\* has, is not answered with an error: the tool's handler is invoked once, with
\* the supplied members in their fields, every other field at its zero value and
\* the keys that name no field dropped.
C30_RequiredNotEnforced ==
    (/\ ToolsCallOfRegistered
     /\ ~Undecodable(RequestedArguments, RequestedTool.inputType.elem)) =>
        /\ ~(WroteEnvelope /\ "error" \in DOMAIN call.w.body.v)
        /\ call.invoked = <<[handler |-> RequestedTool.handlerValue, args |-> ExpectedArgs]>>
        /\ LET struct == RequestedTool.inputType.elem
               params == call.invoked[1].args[Len(call.invoked[1].args)].v.elem
           IN  /\ DOMAIN params = FieldNames(struct)
               /\ \A n \in FieldNames(struct) :
                     FieldOf(struct, n).json \notin SuppliedKeys =>
                         params[n] = Zero(FieldOf(struct, n).ty)

\* The addition tool, whose schema lists a and b as required, was called with a
\* alone and answered 6: its handler ran with b = 0.
C30_Witness ==
    /\ ToolsCallOfRegistered
    /\ RequestedTool.handlerValue = hAdd
    /\ AdvertisedRequired = {"a", "b"}
    /\ RequestedArguments = JObj("a" :> JNum(6))
    /\ call.invoked[1].args[2].v.elem = [A |-> 6, B |-> 0]
    /\ SuccessEnvelope(TextResult("6", FALSE))
====
